---- MODULE Spec2Model ----
(***************************************************************************)
(* Model of the vendor registry and routing subsystem of openai-proxy:     *)
(* VendorManager (internal/vendor/manage.go), Vender (vendor package) and  *)
(* the request handlers (internal/handler/handler.go).                     *)
(*                                                                         *)
(* Strings the code inspects (hosts, regular expressions, model names) are *)
(* sequences of tokens, so that parsing and matching are computed.         *)
(* A Vender instance is identified by an integer: DefaultId for the        *)
(* synthesized default Vender, i for the Vender built from conf.Vendors[i].*)
(* A reverse proxy is identified by the Vender whose ReverseProxy() built  *)
(* it.                                                                     *)
(***************************************************************************)
EXTENDS Integers, Sequences, FiniteSets, TLC

VARIABLES
    conf,           \* config.Conf: Vendors, Models, DefaultVendor
    env,            \* value of the OPENAI_KEY environment variable
    mpc,            \* "new" before Initialize, "initialized" once it has returned
    initErr,        \* TRUE iff Initialize returned an error
    Vendors,        \* VendorManager.Vendors: name -> Vender
    Proxies,        \* VendorManager.Proxies: name -> proxy
    ModelsMap,      \* VendorManager.ModelsMap: compiled rule -> vendor name
    DefaultProxy,   \* VendorManager.DefaultProxy
    DefaultVendor,  \* VendorManager.DefaultVendor
    validKeys,      \* Vender.validKeys, per Vender instance
    periodic,       \* per Vender: the RefreshValidKeys pass of its periodicKeyCheck loop
    mgrPc,          \* position of the StartRefreshKeysTask goroutine
    mgrQueue,       \* RefreshAllKeys: Venders of the snapshot still to refresh
    mgrPass,        \* the RefreshValidKeys pass RefreshAllKeys is running
    passes,         \* number of RefreshValidKeys passes started after Initialize
    committed,      \* per Vender: the probes of the pass that last assigned validKeys
    now,            \* time.Now(), in half hours
    modelsCache,    \* Vender.modelsCache, per Vender instance: no entry or one
    fetched,        \* per Vender: the lists its successful fetches stored, and when
    requests,       \* number of model-list requests sent upstream
    listing,        \* per client: the Models request it has in progress, if any
    proxied,        \* the request a reverse proxy is serving, if any
    last            \* the last call or request and what it returned

vars == <<conf, env, mpc, initErr, Vendors, Proxies, ModelsMap, DefaultProxy,
          DefaultVendor, validKeys, periodic, mgrPc, mgrQueue, mgrPass,
          passes, committed, now, modelsCache, fetched, requests, listing,
          proxied, last>>

managerVars == <<Vendors, Proxies, ModelsMap, DefaultProxy, DefaultVendor>>
listingVars == <<now, modelsCache, fetched, requests, listing>>
refreshVars ==
    <<validKeys, periodic, mgrPc, mgrQueue, mgrPass, passes, committed>>

(***************************************************************************)
(* Bounds                                                                  *)
(***************************************************************************)
MaxVendors == 2
MaxRules == 2
MaxPool == 2
MaxPasses == 2

(***************************************************************************)
(* Values                                                                  *)
(***************************************************************************)
NIL == 0 - 1
DefaultId == 0

Range(s) == {s[i] : i \in 1..Len(s)}

SeqsUpTo(S, n) == UNION {[1..k -> S] : k \in 0..n}

\* hosts: "https://api.openai.com", "https://a.test", ":bad"
defaultEndpoint == <<"https://", "api.openai.com">>
HostOK == <<"https://", "a.test">>
HostBad == <<":", "bad">>

\* model names of requests
ModelA1 == <<"a", "-", "1">>
ModelA2 == <<"a", "-", "2">>
ModelZ9 == <<"z", "-", "9">>
ModelNames == {ModelA1, ModelA2, ModelZ9}

\* regular expressions of the rules: "^a", "-1" and the unparsable "(a"
RegexA == <<"^", "a">>
Regex1 == <<"-", "1">>
RegexBad == <<"(", "a">>

VendorNames == {"A", "B"}
RequestNames == {"", "A", "B", "D", "nonexistent"}
Outcomes == {"valid", "invalid", "error"}

\* url.Parse as used by ReverseProxy: a host starting with ':' has no scheme
UrlParseFails(host) == Len(host) > 0 /\ host[1] = ":"

\* regexp.Compile on the rule language used here: an unclosed group fails
Compiles(regex) == \A i \in 1..Len(regex) : regex[i] # "("

IsPrefixAt(lit, s, k) ==
    /\ k + Len(lit) - 1 <= Len(s)
    /\ \A i \in 1..Len(lit) : s[k + i - 1] = lit[i]

\* Regexp.MatchString: "^lit" matches at the start, "lit" matches anywhere
MatchString(regex, s) ==
    IF Len(regex) > 0 /\ regex[1] = "^"
    THEN IsPrefixAt(Tail(regex), s, 1)
    ELSE \E k \in 1..(Len(s) + 1) : IsPrefixAt(regex, s, k)

\* GetDefaultVendor with a default endpoint that does not parse
GetDefaultVendor_BadHost ==
    [Name |-> "", Host |-> HostBad, HideModels |-> FALSE,
     Key |-> env, Keys |-> <<>>]

\* config.Config.GetDefaultVendor
GetDefaultVendor ==
    [Name |-> "", Host |-> defaultEndpoint, HideModels |-> FALSE,
     Key |-> env, Keys |-> <<>>]

\* the configuration a Vender instance was constructed with (Vender.conf)
ConfOf(v) == IF v = DefaultId THEN GetDefaultVendor ELSE conf.Vendors[v]

(***************************************************************************)
(* Vender.RefreshValidKeys                                                 *)
(***************************************************************************)
\* keysToCheck built from the pool alone
KeysToCheck_PoolOnly(c) == c.Keys

KeysToCheck(c) == (IF c.Key # "" THEN <<c.Key>> ELSE <<>>) \o c.Keys

\* the loop without the test that skips empty keys
ProbeStep_NoSkip(key, outcome, valid) ==
    IF outcome = "valid" THEN Append(valid, key) ELSE valid

\* the loop giving up on an error: the keys collected so far are lost
ProbeStep_ErrorAborts(key, outcome, valid) ==
    IF key = "" THEN valid
    ELSE IF outcome = "error" THEN <<>>
    ELSE IF outcome = "valid" THEN Append(valid, key)
    ELSE valid

\* one iteration of the loop over keysToCheck
ProbeStep(key, outcome, valid) ==
    IF key = "" THEN valid
    ELSE IF outcome = "error" THEN valid
    ELSE IF outcome = "valid" THEN Append(valid, key)
    ELSE valid

RECURSIVE CollectValid(_, _, _)
CollectValid(keys, outcomes, valid) ==
    IF keys = <<>> THEN valid
    ELSE CollectValid(Tail(keys), Tail(outcomes),
                      ProbeStep(Head(keys), Head(outcomes), valid))

\* every validKeys a complete RefreshValidKeys pass can commit
RefreshOutcomes(c) ==
    LET keys == KeysToCheck(c)
    IN {CollectValid(keys, o, <<>>) : o \in [1..Len(keys) -> Outcomes]}

\* the keys one pass has probed so far: those checkKey accepted and those it
\* rejected or could not check
NoProbes == [ok |-> {}, failed |-> {}]

ProbeLog(key, outcome, probes) ==
    IF key = "" THEN probes
    ELSE IF outcome = "valid" THEN [probes EXCEPT !.ok = @ \cup {key}]
    ELSE [probes EXCEPT !.failed = @ \cup {key}]

RECURSIVE CollectProbes(_, _, _)
CollectProbes(keys, outcomes, probes) ==
    IF keys = <<>> THEN probes
    ELSE CollectProbes(Tail(keys), Tail(outcomes),
                       ProbeLog(Head(keys), Head(outcomes), probes))

\* every complete RefreshValidKeys pass: what it commits and what it probed
RefreshResults(c) ==
    LET keys == KeysToCheck(c)
    IN {[valid |-> CollectValid(keys, o, <<>>),
         probes |-> CollectProbes(keys, o, NoProbes)] :
            o \in [1..Len(keys) -> Outcomes]}

IdlePass ==
    [pc |-> "idle", vender |-> NIL, keys |-> <<>>, valid |-> <<>>,
     probes |-> NoProbes]

\* a client with no Models request in progress
IdleListing ==
    [pc |-> "idle", header |-> "", names |-> <<>>, all |-> <<>>,
     success |-> 0, results |-> <<>>]

\* the body of an answer that carries none: json.Unmarshal fails on it
NoBody ==
    [parses |-> FALSE, Status |-> FALSE, DataStatus |-> "",
     TotalBalance |-> <<>>]

\* no answer: client.Do returned an error
NoResponse == [transport |-> "fail", code |-> 0, body |-> NoBody]

\* a reverse proxy with no request in progress
IdleRequest ==
    [pc |-> "idle", vender |-> NIL, path |-> <<>>, err |-> ""]

(***************************************************************************)
(* Observations                                                            *)
(***************************************************************************)
NoObs ==
    [op |-> "none", name |-> "", model |-> <<>>, vendor |-> "",
     routed |-> "", vender |-> NIL, proxy |-> NIL, key |-> "",
     valid |-> <<>>, failed |-> {}, status |-> "none",
     auth |-> <<>>, upstream |-> <<>>, host |-> <<>>, at |-> 0, hit |-> FALSE, sent |-> 0,
     err |-> "", list |-> <<>>, prior |-> <<>>, kind |-> "",
     results |-> <<>>, path |-> <<>>, sentPath |-> <<>>, code |-> 0,
     body |-> <<>>]

(***************************************************************************)
(* VendorManager.Initialize                                                *)
(***************************************************************************)
MaxIndex(S) == CHOOSE i \in S : \A j \in S : j <= i

InitializeBody ==
    /\ mpc = "new"
    /\ LET n == Len(conf.Vendors)
           built == {i \in 1..n : ~UrlParseFails(conf.Vendors[i].Host)}
           idx(S, name) == MaxIndex({i \in S : conf.Vendors[i].Name = name})
           defErr == UrlParseFails(GetDefaultVendor.Host)
           allResults == UNION {RefreshResults(ConfOf(i)) : i \in 0..n}
       IN
       /\ Vendors' = [name \in {conf.Vendors[i].Name : i \in 1..n}
                        |-> idx(1..n, name)]
       /\ Proxies' = [name \in {conf.Vendors[i].Name : i \in built}
                        |-> idx(built, name)]
       /\ ModelsMap' = {[id |-> j, pattern |-> conf.Models[j].Regex,
                         vendor |-> conf.Models[j].Vendor] :
                        j \in {k \in 1..Len(conf.Models) :
                                 Compiles(conf.Models[k].Regex)}}
       /\ DefaultVendor' = DefaultId
       /\ DefaultProxy' = IF defErr THEN NIL ELSE DefaultId
       /\ initErr' = defErr
       /\ \E rs \in [0..n -> allResults] :
            /\ \A i \in 0..n : rs[i] \in RefreshResults(ConfOf(i))
            /\ validKeys' = [i \in 0..n |-> rs[i].valid]
            /\ committed' = [i \in 0..n |-> rs[i].probes]
       /\ periodic' = [i \in 0..n |-> IdlePass]
       /\ modelsCache' = [i \in 0..n |-> <<>>]
       /\ fetched' = [i \in 0..n |-> <<>>]
       /\ mgrPc' = IF defErr THEN "off" ELSE "start"
    /\ UNCHANGED <<proxied, conf, env, mgrQueue, mgrPass, passes, now, requests,
                   listing, last>>

\* Initialize from the Lock to the deferred Unlock, taken as one step
Initialize == InitializeBody /\ mpc' = "initialized"

\* Initialize up to its return statement: the registry is built and the task
\* is launched, and m.mutex is still held
InitializeLocked == InitializeBody /\ mpc' = "locked"

\* Initialize returns and its deferred Unlock releases m.mutex
InitializeReturn ==
    /\ mpc = "locked"
    /\ mpc' = "initialized"
    /\ UNCHANGED <<listingVars, proxied, conf, env, initErr, managerVars,
                   refreshVars, last>>

(***************************************************************************)
(* VendorManager lookups                                                   *)
(***************************************************************************)
\* GetVendor without the substitution of the default name for ""
GetVendor_NoDefaultName(name) ==
    IF name \in DOMAIN Vendors THEN Vendors[name] ELSE DefaultVendor

\* VendorManager.GetVendor
GetVendor(name) ==
    LET n == IF name = "" THEN conf.DefaultVendor ELSE name
    IN IF n \in DOMAIN Vendors THEN Vendors[n] ELSE DefaultVendor

\* GetProxyForVendor without the substitution of the default name for ""
GetProxyForVendor_NoDefaultName(vendorName) ==
    IF vendorName \in DOMAIN Proxies THEN Proxies[vendorName] ELSE DefaultProxy

\* VendorManager.GetProxyForVendor
GetProxyForVendor(vendorName) ==
    LET n == IF vendorName = "" THEN conf.DefaultVendor ELSE vendorName
    IN IF n \in DOMAIN Proxies THEN Proxies[n] ELSE DefaultProxy

\* GetVendorForModel without the MatchString test: any rule wins
GetVendorForModel_AnyRule(modelName) ==
    IF ModelsMap = {} THEN {conf.DefaultVendor}
    ELSE {r.vendor : r \in ModelsMap}

\* GetVendorForModel without the assignment in the loop: always the default
GetVendorForModel_NoAssign(modelName) == {conf.DefaultVendor}

\* VendorManager.GetVendorForModel: the names a call can return.  The range
\* over the ModelsMap map visits the rules in an unspecified order and stops
\* at the first match, so any matching rule can be the one that wins.
GetVendorForModel(modelName) ==
    LET matching == {r \in ModelsMap : MatchString(r.pattern, modelName)}
    IN IF matching = {} THEN {conf.DefaultVendor}
       ELSE {r.vendor : r \in matching}

\* GetProxyForModel that ignores the model and uses the default vendor name
GetProxyForModel_IgnoreModel(modelName) ==
    {[vendor |-> conf.DefaultVendor, proxy |-> GetProxyForVendor("")]}

\* VendorManager.GetProxyForModel: the proxies a call can return, each with
\* the vendor name its own GetVendorForModel call resolved
GetProxyForModel(modelName) ==
    {[vendor |-> vendorName, proxy |-> GetProxyForVendor(vendorName)] :
        vendorName \in GetVendorForModel(modelName)}

CallGetVendor ==
    /\ mpc = "initialized"
    /\ \E name \in RequestNames :
         last' = [NoObs EXCEPT !.op = "GetVendor", !.name = name,
                               !.vender = GetVendor(name)]
    /\ UNCHANGED <<listingVars, proxied, conf, env, mpc, initErr,
                   managerVars, refreshVars>>

CallGetProxyForVendor ==
    /\ mpc = "initialized"
    /\ \E name \in RequestNames :
         last' = [NoObs EXCEPT !.op = "GetProxyForVendor", !.name = name,
                               !.proxy = GetProxyForVendor(name)]
    /\ UNCHANGED <<listingVars, proxied, conf, env, mpc, initErr,
                   managerVars, refreshVars>>

CallGetVendorForModel ==
    /\ mpc = "initialized"
    /\ \E model \in ModelNames : \E v \in GetVendorForModel(model) :
         last' = [NoObs EXCEPT !.op = "GetVendorForModel", !.model = model,
                               !.vendor = v]
    /\ UNCHANGED <<listingVars, proxied, conf, env, mpc, initErr,
                   managerVars, refreshVars>>

CallGetProxyForModel ==
    /\ mpc = "initialized"
    /\ \E model \in ModelNames : \E p \in GetProxyForModel(model) :
         last' = [NoObs EXCEPT !.op = "GetProxyForModel", !.model = model,
                               !.routed = p.vendor, !.proxy = p.proxy]
    /\ UNCHANGED <<listingVars, proxied, conf, env, mpc, initErr,
                   managerVars, refreshVars>>

(***************************************************************************)
(* Request handlers                                                        *)
(***************************************************************************)
Headers == {"", "A", "B", "nonexistent"}
Methods == {"POST", "GET"}

\* handler.proxy (the NoRoute handler): routed by the x-vendor header
ProxyRequest ==
    /\ mpc = "initialized"
    /\ \E header \in Headers :
         last' = [NoObs EXCEPT !.op = "proxy", !.name = header,
                               !.proxy = GetProxyForVendor(header),
                               !.status = "forwarded"]
    /\ UNCHANGED <<listingVars, proxied, conf, env, mpc, initErr,
                   managerVars, refreshVars>>

\* the model names a request body gives: none when it does not bind
BodyModels(bodyOK) == IF bodyOK THEN ModelNames ELSE {<<>>}

\* the part ChatComplections and the POST branch of Responses share: bind the
\* body, resolve the vendor for the log line, then serve through
\* GetProxyForModel(model)
ServeByModel(op, header, model, bodyOK) ==
    IF ~bodyOK
    THEN last' = [NoObs EXCEPT !.op = op, !.name = header, !.status = "400"]
    ELSE \E vendorName \in GetVendorForModel(model) :
         \E p \in GetProxyForModel(model) :
            last' = [NoObs EXCEPT !.op = op, !.name = header,
                                  !.model = model, !.vendor = vendorName,
                                  !.routed = p.vendor, !.proxy = p.proxy,
                                  !.status = "forwarded"]

\* handler.ChatComplections
ChatComplections ==
    /\ mpc = "initialized"
    /\ \E header \in Headers, bodyOK \in BOOLEAN :
         \E model \in BodyModels(bodyOK) :
            ServeByModel("ChatComplections", header, model, bodyOK)
    /\ UNCHANGED <<listingVars, proxied, conf, env, mpc, initErr,
                   managerVars, refreshVars>>

\* handler.Responses
Responses ==
    /\ mpc = "initialized"
    /\ \E method \in Methods, header \in Headers :
         IF method = "POST"
         THEN \E bodyOK \in BOOLEAN : \E model \in BodyModels(bodyOK) :
                ServeByModel("ResponsesPOST", header, model, bodyOK)
         ELSE last' = [NoObs EXCEPT !.op = "Responses", !.name = header,
                                    !.proxy = GetProxyForVendor(header),
                                    !.status = "forwarded"]
    /\ UNCHANGED <<listingVars, proxied, conf, env, mpc, initErr,
                   managerVars, refreshVars>>

\* handler.ResponseByID
ResponseByID ==
    /\ mpc = "initialized"
    /\ \E header \in Headers :
         last' = [NoObs EXCEPT !.op = "ResponseByID", !.name = header,
                               !.proxy = GetProxyForVendor(header),
                               !.status = "forwarded"]
    /\ UNCHANGED <<listingVars, proxied, conf, env, mpc, initErr,
                   managerVars, refreshVars>>

(***************************************************************************)
(* The registry and the routing of requests                                *)
(***************************************************************************)
\* vendor descriptors that rely on the client's credential: no key, no pool
RoutingVendor(name, host) ==
    [Name |-> name, Host |-> host, HideModels |-> FALSE, Key |-> "",
     Keys |-> <<>>]

RoutingVendorLists ==
    {vs \in SeqsUpTo({RoutingVendor(nm, h) : nm \in VendorNames,
                                             h \in {HostOK, HostBad}},
                     MaxVendors) :
        \A i, j \in 1..Len(vs) : vs[i].Name = vs[j].Name => i = j}

Rule(regex, vendor) == [Regex |-> regex, Vendor |-> vendor]

RuleLists ==
    SeqsUpTo({Rule(RegexA, "A"), Rule(Regex1, "A"), Rule(Regex1, "B"),
              Rule(RegexBad, "B")}, MaxRules)

Init ==
    /\ conf \in {[Vendors |-> vs, Models |-> ms, DefaultVendor |-> d] :
                    vs \in RoutingVendorLists, ms \in RuleLists,
                    d \in {"", "A", "D"}}
    /\ env = ""
    /\ mpc = "new"
    /\ initErr = FALSE
    /\ Vendors = <<>>
    /\ Proxies = <<>>
    /\ ModelsMap = {}
    /\ DefaultProxy = NIL
    /\ DefaultVendor = NIL
    /\ validKeys = <<>>
    /\ committed = <<>>
    /\ periodic = <<>>
    /\ mgrPc = "off"
    /\ mgrQueue = <<>>
    /\ mgrPass = IdlePass
    /\ passes = 0
    /\ now = 0
    /\ modelsCache = <<>>
    /\ fetched = <<>>
    /\ requests = 0
    /\ listing = <<>>
    /\ proxied = IdleRequest
    /\ last = NoObs

Next ==
    \/ Initialize
    \/ CallGetVendor
    \/ CallGetProxyForVendor
    \/ CallGetVendorForModel
    \/ CallGetProxyForModel
    \/ ProxyRequest
    \/ ChatComplections
    \/ Responses
    \/ ResponseByID

Spec == Init /\ [][Next]_vars

(***************************************************************************)
(* Key refresh and key selection                                           *)
(***************************************************************************)
Venders == DOMAIN validKeys

\* RefreshValidKeys up to the loop: keysToCheck collected, nothing probed yet
StartPass(v) ==
    [pc |-> "probing", vender |-> v, keys |-> KeysToCheck(ConfOf(v)),
     valid |-> <<>>, probes |-> NoProbes]

\* RefreshValidKeys: one iteration of the loop, checkKey answering outcome
ProbePass(pass, outcome) ==
    [pass EXCEPT !.keys = Tail(pass.keys),
                 !.valid = ProbeStep(Head(pass.keys), outcome, pass.valid),
                 !.probes = ProbeLog(Head(pass.keys), outcome, pass.probes)]

\* an assignment that installs the list before its last key is in it
CommitPass_Partial(pass) ==
    [validKeys EXCEPT ![pass.vender] =
        IF pass.valid = <<>> THEN <<>>
        ELSE SubSeq(pass.valid, 1, Len(pass.valid) - 1)]

\* RefreshValidKeys: the assignment of v.validKeys under v.mutex
CommitPass(pass) == [validKeys EXCEPT ![pass.vender] = pass.valid]

\* periodicKeyCheck of Vender v: a tick of its ticker starts a pass
PeriodicTick(v) ==
    /\ mpc = "initialized"
    /\ periodic[v].pc = "idle"
    /\ passes < MaxPasses
    /\ periodic' = [periodic EXCEPT ![v] = StartPass(v)]
    /\ passes' = passes + 1
    /\ UNCHANGED <<listingVars, proxied, conf, env, mpc, initErr,
                   managerVars, validKeys, committed,
                   mgrPc,
                   mgrQueue, mgrPass, last>>

PeriodicProbe(v) ==
    /\ periodic[v].pc = "probing"
    /\ periodic[v].keys # <<>>
    /\ \E outcome \in Outcomes :
         periodic' = [periodic EXCEPT ![v] = ProbePass(periodic[v], outcome)]
    /\ UNCHANGED <<listingVars, proxied, conf, env, mpc, initErr,
                   managerVars, validKeys, committed,
                   mgrPc,
                   mgrQueue, mgrPass, passes, last>>

PeriodicCommit(v) ==
    /\ periodic[v].pc = "probing"
    /\ periodic[v].keys = <<>>
    /\ validKeys' = CommitPass(periodic[v])
    /\ committed' = [committed EXCEPT ![v] = periodic[v].probes]
    /\ periodic' = [periodic EXCEPT ![v] = IdlePass]
    /\ UNCHANGED <<listingVars, proxied, conf, env, mpc, initErr,
                   managerVars, mgrPc, mgrQueue,
                   mgrPass, passes, last>>

\* the orders in which a range over a map with the given values can visit them
Orders(S) ==
    {q \in [1..Cardinality(S) -> S] :
        \A i, j \in 1..Cardinality(S) : q[i] = q[j] => i = j}

\* a snapshot that leaves the default Vender out
Snapshot_RegisteredOnly == Orders({Vendors[nm] : nm \in DOMAIN Vendors})

\* RefreshAllKeys: the slices the loops under the read lock can collect, the
\* range over m.Vendors in any order and then the default Vender unless it is
\* nil or already in the slice
Snapshot ==
    {IF DefaultVendor \in Range(q) \/ DefaultVendor = NIL
     THEN q ELSE Append(q, DefaultVendor) :
       q \in Orders({Vendors[nm] : nm \in DOMAIN Vendors})}

\* a snapshot taken without waiting for m.mutex
MgrSnapshot_NoLock ==
    /\ mgrPc \in {"start", "waiting"}
    /\ passes < MaxPasses
    /\ mgrQueue' \in Snapshot
    /\ mgrPc' = "refreshing"
    /\ UNCHANGED <<listingVars, proxied, conf, env, mpc, initErr,
                   managerVars, validKeys, committed,
                   periodic,
                   mgrPass, passes, last>>

\* RefreshAllKeys from RLock to RUnlock: the snapshot.  RLock waits while
\* Initialize holds m.mutex.  RefreshAllKeys is run by StartRefreshKeysTask
\* at once and then on every tick of its ticker.
MgrSnapshot ==
    /\ mgrPc \in {"start", "waiting"}
    /\ mpc = "initialized"
    /\ passes < MaxPasses
    /\ mgrQueue' \in Snapshot
    /\ mgrPc' = "refreshing"
    /\ UNCHANGED <<listingVars, proxied, conf, env, mpc, initErr,
                   managerVars, validKeys, committed,
                   periodic,
                   mgrPass, passes, last>>

\* RefreshAllKeys: the loop over the snapshot calls RefreshValidKeys
MgrBegin ==
    /\ mgrPc = "refreshing"
    /\ mgrPass.pc = "idle"
    /\ mgrQueue # <<>>
    /\ passes < MaxPasses
    /\ mgrPass' = StartPass(Head(mgrQueue))
    /\ mgrQueue' = Tail(mgrQueue)
    /\ passes' = passes + 1
    /\ UNCHANGED <<listingVars, proxied, conf, env, mpc, initErr,
                   managerVars, validKeys, committed,
                   periodic,
                   mgrPc, last>>

MgrProbe ==
    /\ mgrPass.pc = "probing"
    /\ mgrPass.keys # <<>>
    /\ \E outcome \in Outcomes : mgrPass' = ProbePass(mgrPass, outcome)
    /\ UNCHANGED <<listingVars, proxied, conf, env, mpc, initErr,
                   managerVars, validKeys, committed,
                   periodic,
                   mgrPc, mgrQueue, passes, last>>

\* an assignment that also drops a Vender left without a valid key from the
\* vendor map
MgrCommit_Deregisters ==
    /\ mgrPass.pc = "probing"
    /\ mgrPass.keys = <<>>
    /\ validKeys' = CommitPass(mgrPass)
    /\ committed' = [committed EXCEPT ![mgrPass.vender] = mgrPass.probes]
    /\ mgrPass' = IdlePass
    /\ Vendors' = [nm \in {n \in DOMAIN Vendors :
                              Vendors[n] # mgrPass.vender
                                \/ mgrPass.valid # <<>>} |-> Vendors[nm]]
    /\ UNCHANGED <<listingVars, proxied, conf, env, mpc, initErr,
                   Proxies, ModelsMap, DefaultProxy, DefaultVendor,
                   periodic, mgrPc, mgrQueue, passes, last>>

MgrCommit ==
    /\ mgrPass.pc = "probing"
    /\ mgrPass.keys = <<>>
    /\ validKeys' = CommitPass(mgrPass)
    /\ committed' = [committed EXCEPT ![mgrPass.vender] = mgrPass.probes]
    /\ mgrPass' = IdlePass
    /\ UNCHANGED <<listingVars, proxied, conf, env, mpc, initErr,
                   managerVars, periodic, mgrPc,
                   mgrQueue, passes, last>>

\* a task that ends after its first RefreshAllKeys
MgrDone_Stops ==
    /\ mgrPc = "refreshing"
    /\ mgrPass.pc = "idle"
    /\ mgrQueue = <<>>
    /\ mgrPc' = "off"
    /\ UNCHANGED <<listingVars, proxied, conf, env, mpc, initErr,
                   managerVars, validKeys, committed,
                   periodic,
                   mgrQueue, mgrPass, passes, last>>

\* RefreshAllKeys returns; the task waits for the next tick
MgrDone ==
    /\ mgrPc = "refreshing"
    /\ mgrPass.pc = "idle"
    /\ mgrQueue = <<>>
    /\ mgrPc' = "waiting"
    /\ UNCHANGED <<listingVars, proxied, conf, env, mpc, initErr,
                   managerVars, validKeys, committed,
                   periodic,
                   mgrQueue, mgrPass, passes, last>>

\* GetKey that picks among the valid keys only, without the two fallbacks
GetKey_NoFallback(c, valid) ==
    IF Len(valid) = 0 THEN {""} ELSE Range(valid)

\* GetKey that always hands out the primary key
GetKey_AlwaysPrimary(c, valid) == {c.Key}

\* GetKey that rotates over the configured pool instead of the valid keys
GetKey_FromPool(c, valid) ==
    IF Len(c.Keys) = 0 THEN {c.Key} ELSE Range(c.Keys)

\* GetKey that rotates over every configured key, validated or not
GetKey_AnyConfigured(c, valid) ==
    IF Len(c.Keys) = 0 THEN {c.Key} ELSE {c.Key} \cup Range(c.Keys)

\* Vender.GetKey: the keys a call can return for configuration c when
\* v.validKeys is valid (rng.Intn picks any index)
GetKey(c, valid) ==
    IF Len(c.Keys) = 0 THEN {c.Key}
    ELSE IF Len(valid) = 0 THEN {c.Key}
    ELSE {valid[i] : i \in 1..Len(valid)}

CallGetKey(v) ==
    /\ mpc = "initialized"
    /\ \E key \in GetKey(ConfOf(v), validKeys[v]) :
         last' = [NoObs EXCEPT !.op = "GetKey", !.vender = v, !.key = key,
                               !.valid = validKeys[v],
                               !.failed = committed[v].failed
                                              \ committed[v].ok]
    /\ UNCHANGED <<listingVars, proxied, conf, env, mpc, initErr,
                   managerVars, refreshVars>>

\* the values req.Header.Get("Authorization") can give: empty when the
\* request carries no Authorization header, else the header's value
AuthHeaders ==
    {<<>>, <<"Bearer ", "null">>, <<"Bearer ", "sk-", "null", "-x">>,
     <<"Bearer ", "sk-client">>, <<"Basic ", "dXNlcg==">>}

\* strings.Contains on a tokenised string
Contains(s, substr) == \E i \in 1..Len(s) : s[i] = substr

\* the test that hands out the vendor key for a missing header only
NeedsVendorKey_OnlyWhenAbsent(authHeader) == authHeader = <<>>

\* modifyProxyRequest: authHeader == "" || strings.Contains(authHeader, "null")
NeedsVendorKey(authHeader) ==
    authHeader = <<>> \/ Contains(authHeader, "null")

\* the proxy built by Vender v, if any, is registered with the manager
HasProxy(v) ==
    \/ DefaultProxy = v
    \/ \E nm \in DOMAIN Proxies : Proxies[nm] = v

\* Vender.modifyProxyRequest, run by the Director of v's proxy on every
\* request it forwards
modifyProxyRequest(v) ==
    /\ mpc = "initialized"
    /\ HasProxy(v)
    /\ \E authHeader \in AuthHeaders :
         LET obs == [NoObs EXCEPT !.op = "modifyProxyRequest", !.vender = v,
                                  !.auth = authHeader,
                                  !.valid = validKeys[v],
                                  !.host = Tail(ConfOf(v).Host)]
         IN IF NeedsVendorKey(authHeader)
            THEN \E key \in GetKey(ConfOf(v), validKeys[v]) :
                   last' = [obs EXCEPT !.key = key,
                                       !.upstream = <<"Bearer ", key>>]
            ELSE last' = [obs EXCEPT !.upstream = authHeader]
    /\ UNCHANGED <<listingVars, proxied, conf, env, mpc, initErr, managerVars,
                   refreshVars>>

\* one configured vendor with every shape of key and pool, and the default
\* Vender with or without OPENAI_KEY
KeyVendor(key, pool) ==
    [Name |-> "A", Host |-> HostOK, HideModels |-> FALSE, Key |-> key,
     Keys |-> pool]

InitKeys ==
    /\ conf \in {[Vendors |-> <<KeyVendor(k, pool)>>, Models |-> <<>>,
                  DefaultVendor |-> "A"] :
                    k \in {"", "k1"}, pool \in SeqsUpTo({"", "k2"}, MaxPool)}
    /\ env \in {"", "k0"}
    /\ mpc = "new"
    /\ initErr = FALSE
    /\ Vendors = <<>>
    /\ Proxies = <<>>
    /\ ModelsMap = {}
    /\ DefaultProxy = NIL
    /\ DefaultVendor = NIL
    /\ validKeys = <<>>
    /\ committed = <<>>
    /\ periodic = <<>>
    /\ mgrPc = "off"
    /\ mgrQueue = <<>>
    /\ mgrPass = IdlePass
    /\ passes = 0
    /\ now = 0
    /\ modelsCache = <<>>
    /\ fetched = <<>>
    /\ requests = 0
    /\ listing = <<>>
    /\ proxied = IdleRequest
    /\ last = NoObs

NextKeys ==
    \/ Initialize
    \/ \E v \in Venders : PeriodicTick(v)
    \/ \E v \in Venders : PeriodicProbe(v)
    \/ \E v \in Venders : PeriodicCommit(v)
    \/ MgrSnapshot
    \/ MgrBegin
    \/ MgrProbe
    \/ MgrCommit
    \/ MgrDone
    \/ \E v \in Venders : CallGetKey(v)

SpecKeys == InitKeys /\ [][NextKeys]_vars

\* requests forwarded through the proxies with the valid keys of the first
\* refresh
NextRewrite ==
    \/ Initialize
    \/ \E v \in Venders : modifyProxyRequest(v)

SpecRewrite == InitKeys /\ [][NextRewrite]_vars

(***************************************************************************)
(* Model listing: Vender.Models and the Models handler                     *)
(***************************************************************************)
MaxTime == 2
MaxFetches == 2

\* time.Hour, the life of a cache entry, on the clock of now
Hour == 2

HostOpenRouter == <<"https://", "openrouter", ".ai">>

\* Vender.GetVendorType: the dialect is read off the host
GetVendorType(host) ==
    IF \E i \in 1..Len(host) : host[i] = "siliconflow" THEN "siliconflow"
    ELSE IF \E i \in 1..Len(host) : host[i] = "openrouter" THEN "openrouter"
    ELSE "openai"

\* model objects an upstream can list: Pricing is "nil" when the object has
\* no pricing, "zero" when prompt and completion cost nothing, else "paid"
ModelShared == [ID |-> "shared-model", Pricing |-> "zero"]
ModelPaid == [ID |-> "paid-model", Pricing |-> "paid"]
ModelPlain == [ID |-> "plain-model", Pricing |-> "nil"]

\* the Data of the envelopes an upstream can answer with
UpstreamLists ==
    {<<>>, <<ModelShared, ModelPaid>>, <<ModelPlain, ModelShared>>}

\* the ways a fetch can fail: client.Do or ReadAll, status, json.Unmarshal
FetchErrors == {"transport", "status", "body"}

\* Models: the filter applied to the list of an openrouter vendor
RECURSIVE ZeroPriced(_)
ZeroPriced(list) ==
    IF list = <<>> THEN <<>>
    ELSE IF Head(list).Pricing = "zero"
         THEN <<Head(list)>> \o ZeroPriced(Tail(list))
         ELSE ZeroPriced(Tail(list))

FilterModels(v, list) ==
    IF GetVendorType(ConfOf(v).Host) = "openrouter" THEN ZeroPriced(list)
    ELSE list

\* no expiry test: an entry is served for as long as it is stored
CacheFresh_Always(item, t) == TRUE

\* the expiry test with the entry still served at the instant it expires
CacheFresh_AtExpiry(item, t) == t <= item.ExpiresAt

\* Models: time.Now().Before(cacheItem.ExpiresAt)
CacheFresh(item, t) == t < item.ExpiresAt

\* Models: found in cache and not expired
CacheHit(v) ==
    /\ modelsCache[v] # <<>>
    /\ CacheFresh(modelsCache[v][1], now)

\* Models: the entry stored after a successful fetch
StoreCache(list) == <<[Models |-> list, ExpiresAt |-> now + Hour]>>

IDs(list) == {list[i].ID : i \in 1..Len(list)}

\* entries of a response carry the vendor name they are listed for
Entry(model, name) ==
    [ID |-> model.ID, Pricing |-> model.Pricing, from |-> name]

Entries(list, name) == [i \in 1..Len(list) |-> Entry(list[i], name)]

\* the listing loop that appends every model, also one whose ID is present
RECURSIVE AddModels_KeepDuplicates(_, _, _)
AddModels_KeepDuplicates(all, list, name) ==
    IF list = <<>> THEN all
    ELSE AddModels_KeepDuplicates(Append(all, Entry(Head(list), name)),
                                  Tail(list), name)

\* Models handler: the loop that adds a vendor's models to allModels,
\* skipping the IDs modelMap already holds
RECURSIVE AddModels(_, _, _)
AddModels(all, list, name) ==
    IF list = <<>> THEN all
    ELSE AddModels(IF Head(list).ID \in IDs(all) THEN all
                   ELSE Append(all, Entry(Head(list), name)),
                   Tail(list), name)

\* fallbackToStaticModels: one entry per configured model rule
fallbackToStaticModels ==
    [j \in 1..Len(conf.Models) |->
        [ID |-> conf.Models[j].Name, Pricing |-> "nil",
         from |-> conf.Models[j].Vendor]]

\* VendorManager.GetAllVendorNames: the names of the vendor map
GetAllVendorNames == DOMAIN Vendors

\* the handler has the outcome of one vendor name: hidden, failed or listed
Handled(c, res) ==
    [c EXCEPT !.pc = "next",
              !.names = Tail(@),
              !.results = Append(@, res),
              !.all = IF c.header = "" /\ res.ok
                      THEN AddModels(@, res.list, res.name) ELSE @,
              !.success = IF c.header = "" /\ res.ok THEN @ + 1 ELSE @]

Result(name, v, hidden, ok, list) ==
    [name |-> name, vender |-> v, hidden |-> hidden, ok |-> ok,
     list |-> list]

\* Models handler up to its first vendor: the header selects one vendor or
\* the loop over all vendor names
ModelsStart(p) ==
    /\ mpc = "initialized"
    /\ listing[p].pc = "idle"
    /\ \E header \in {"", "A", "B"} :
         \E names \in IF header # "" THEN {<<header>>}
                      ELSE Orders(GetAllVendorNames) :
           listing' = [listing EXCEPT ![p] =
                          [IdleListing EXCEPT !.pc = "next",
                                              !.header = header,
                                              !.names = names]]
    /\ UNCHANGED <<proxied, conf, env, mpc, initErr, managerVars, refreshVars, now,
                   modelsCache, fetched, requests, last>>

\* Models handler: the next vendor is hidden, so Models is not called
ModelsSkipHidden(p) ==
    /\ listing[p].pc = "next"
    /\ listing[p].names # <<>>
    /\ LET name == Head(listing[p].names)
           v == GetVendor(name)
       IN /\ ConfOf(v).HideModels
          /\ listing' = [listing EXCEPT ![p] =
                Handled(listing[p], Result(name, v, TRUE, FALSE, <<>>))]
    /\ UNCHANGED <<proxied, conf, env, mpc, initErr, managerVars, refreshVars, now,
                   modelsCache, fetched, requests, last>>

\* Vender.Models up to the cache test: a fresh entry is returned at once,
\* otherwise the request goes upstream
ModelsCall(p) ==
    /\ listing[p].pc = "next"
    /\ listing[p].names # <<>>
    /\ LET name == Head(listing[p].names)
           v == GetVendor(name)
           obs == [NoObs EXCEPT !.op = "Vender.Models", !.name = name,
                                !.vender = v, !.at = now,
                                !.prior = fetched[v]]
       IN /\ ~ConfOf(v).HideModels
          /\ IF CacheHit(v)
             THEN LET list == modelsCache[v][1].Models
                  IN /\ listing' = [listing EXCEPT ![p] =
                           Handled(listing[p],
                                   Result(name, v, FALSE, TRUE, list))]
                     /\ last' = [obs EXCEPT !.hit = TRUE, !.list = list]
                     /\ UNCHANGED requests
             ELSE /\ requests < MaxFetches
                  /\ requests' = requests + 1
                  /\ listing' = [listing EXCEPT ![p].pc = "fetch"]
                  /\ last' = [obs EXCEPT !.sent = 1]
    /\ UNCHANGED <<proxied, conf, env, mpc, initErr, managerVars, refreshVars, now,
                   modelsCache, fetched>>

\* a failed fetch that evicts the entry of its Vender
ModelsFetchFailed_EvictsEntry(p) ==
    /\ listing[p].pc = "fetch"
    /\ LET name == Head(listing[p].names)
           v == GetVendor(name)
       IN \E e \in FetchErrors :
            /\ modelsCache' = [modelsCache EXCEPT ![v] = <<>>]
            /\ listing' = [listing EXCEPT ![p] =
                  Handled(listing[p], Result(name, v, FALSE, FALSE, <<>>))]
            /\ last' = [NoObs EXCEPT !.op = "Vender.Models.fetch",
                                     !.name = name, !.vender = v,
                                     !.err = e]
    /\ UNCHANGED <<proxied, conf, env, mpc, initErr, managerVars, refreshVars, now,
                   fetched, requests>>

\* a failed fetch that leaves an empty list in the cache
ModelsFetchFailed_StoresEmpty(p) ==
    /\ listing[p].pc = "fetch"
    /\ LET name == Head(listing[p].names)
           v == GetVendor(name)
       IN \E e \in FetchErrors :
            /\ modelsCache' = [modelsCache EXCEPT ![v] = StoreCache(<<>>)]
            /\ listing' = [listing EXCEPT ![p] =
                  Handled(listing[p], Result(name, v, FALSE, FALSE, <<>>))]
            /\ last' = [NoObs EXCEPT !.op = "Vender.Models.fetch",
                                     !.name = name, !.vender = v,
                                     !.err = e]
    /\ UNCHANGED <<proxied, conf, env, mpc, initErr, managerVars, refreshVars, now,
                   fetched, requests>>

\* Vender.Models: the request failed, the status was not 200 or the body
\* did not parse; Models returns the error
ModelsFetchFailed(p) ==
    /\ listing[p].pc = "fetch"
    /\ LET name == Head(listing[p].names)
           v == GetVendor(name)
       IN \E e \in FetchErrors :
            /\ listing' = [listing EXCEPT ![p] =
                  Handled(listing[p], Result(name, v, FALSE, FALSE, <<>>))]
            /\ last' = [NoObs EXCEPT !.op = "Vender.Models.fetch",
                                     !.name = name, !.vender = v,
                                     !.err = e]
    /\ UNCHANGED <<proxied, conf, env, mpc, initErr, managerVars, refreshVars, now,
                   modelsCache, fetched, requests>>

\* Vender.Models: the upstream answered 200 with a list; it is filtered,
\* stored in the cache for an hour and returned
ModelsFetched(p) ==
    /\ listing[p].pc = "fetch"
    /\ LET name == Head(listing[p].names)
           v == GetVendor(name)
       IN \E data \in UpstreamLists :
            LET list == FilterModels(v, data)
            IN /\ modelsCache' = [modelsCache EXCEPT ![v] = StoreCache(list)]
               /\ fetched' = [fetched EXCEPT ![v] =
                                Append(@, [list |-> list, at |-> now])]
               /\ listing' = [listing EXCEPT ![p] =
                     Handled(listing[p], Result(name, v, FALSE, TRUE, list))]
               /\ last' = [NoObs EXCEPT !.op = "Vender.Models.fetch",
                                        !.name = name, !.vender = v,
                                        !.list = list]
    /\ UNCHANGED <<proxied, conf, env, mpc, initErr, managerVars, refreshVars, now,
                   requests>>

\* the single-vendor answer that falls back for a hidden vendor as well
SingleResponse_FallbackWhenHidden(res) ==
    IF res.ok THEN [kind |-> "vendor", list |-> Entries(res.list, res.name)]
    ELSE [kind |-> "static", list |-> fallbackToStaticModels]

\* Models handler with a vendor filter: what it answers
SingleResponse(res) ==
    IF res.hidden THEN [kind |-> "hidden", list |-> <<>>]
    ELSE IF ~res.ok THEN [kind |-> "static", list |-> fallbackToStaticModels]
    ELSE [kind |-> "vendor", list |-> Entries(res.list, res.name)]

\* the aggregated answer that falls back whenever the merged list is empty
CombinedResponse_FallbackWhenEmpty(c) ==
    IF Len(c.all) = 0
    THEN [kind |-> "static", list |-> fallbackToStaticModels]
    ELSE [kind |-> "combined", list |-> c.all]

\* Models handler without a vendor filter: what it answers after the loop
CombinedResponse(c) ==
    IF c.success = 0 /\ Len(c.all) = 0
    THEN [kind |-> "static", list |-> fallbackToStaticModels]
    ELSE [kind |-> "combined", list |-> c.all]

\* Models handler: the response is written
ModelsRespond(p) ==
    /\ listing[p].pc = "next"
    /\ listing[p].names = <<>>
    /\ LET c == listing[p]
           r == IF c.header # "" THEN SingleResponse(c.results[1])
                ELSE CombinedResponse(c)
       IN last' = [NoObs EXCEPT !.op = "Models", !.name = c.header,
                                !.kind = r.kind, !.list = r.list,
                                !.results = c.results]
    /\ listing' = [listing EXCEPT ![p] = IdleListing]
    /\ UNCHANGED <<proxied, conf, env, mpc, initErr, managerVars, refreshVars, now,
                   modelsCache, fetched, requests>>

\* time passes
Tick ==
    /\ now < MaxTime
    /\ now' = now + 1
    /\ UNCHANGED <<proxied, conf, env, mpc, initErr, managerVars, refreshVars,
                   modelsCache, fetched, requests, listing, last>>

ListingVendor(name, host, hide) ==
    [Name |-> name, Host |-> host, HideModels |-> hide, Key |-> "",
     Keys |-> <<>>]

\* no vendor, vendor A, or vendors A and openrouter vendor B, each shown or
\* hidden
ListingVendorLists ==
    {<<>>}
    \cup {<<ListingVendor("A", HostOK, h)>> : h \in BOOLEAN}
    \cup {<<ListingVendor("A", HostOK, ha),
            ListingVendor("B", HostOpenRouter, hb)>> : ha, hb \in BOOLEAN}

NamedRule(name, regex, vendor) ==
    [Name |-> name, Regex |-> regex, Vendor |-> vendor]

InitModels ==
    /\ conf \in {[Vendors |-> vs,
                  Models |-> <<NamedRule("a-model", RegexA, "A"),
                               NamedRule("b-model", Regex1, "B")>>,
                  DefaultVendor |-> "A"] : vs \in ListingVendorLists}
    /\ env = ""
    /\ mpc = "new"
    /\ initErr = FALSE
    /\ Vendors = <<>>
    /\ Proxies = <<>>
    /\ ModelsMap = {}
    /\ DefaultProxy = NIL
    /\ DefaultVendor = NIL
    /\ validKeys = <<>>
    /\ committed = <<>>
    /\ periodic = <<>>
    /\ mgrPc = "off"
    /\ mgrQueue = <<>>
    /\ mgrPass = IdlePass
    /\ passes = 0
    /\ now = 0
    /\ modelsCache = <<>>
    /\ fetched = <<>>
    /\ requests = 0
    /\ listing = [p \in {1} |-> IdleListing]
    /\ proxied = IdleRequest
    /\ last = NoObs

NextModels ==
    \/ Initialize
    \/ \E p \in DOMAIN listing : ModelsStart(p)
    \/ \E p \in DOMAIN listing : ModelsSkipHidden(p)
    \/ \E p \in DOMAIN listing : ModelsCall(p)
    \/ \E p \in DOMAIN listing : ModelsFetchFailed(p)
    \/ \E p \in DOMAIN listing : ModelsFetched(p)
    \/ \E p \in DOMAIN listing : ModelsRespond(p)
    \/ Tick

SpecModels == InitModels /\ [][NextModels]_vars

\* two clients listing the models of vendor A or of the default Vender at
\* the same time
InitCache ==
    /\ conf = [Vendors |-> <<ListingVendor("A", HostOK, FALSE)>>,
               Models |-> <<NamedRule("a-model", RegexA, "A")>>,
               DefaultVendor |-> "A"]
    /\ env = ""
    /\ mpc = "new"
    /\ initErr = FALSE
    /\ Vendors = <<>>
    /\ Proxies = <<>>
    /\ ModelsMap = {}
    /\ DefaultProxy = NIL
    /\ DefaultVendor = NIL
    /\ validKeys = <<>>
    /\ committed = <<>>
    /\ periodic = <<>>
    /\ mgrPc = "off"
    /\ mgrQueue = <<>>
    /\ mgrPass = IdlePass
    /\ passes = 0
    /\ now = 0
    /\ modelsCache = <<>>
    /\ fetched = <<>>
    /\ requests = 0
    /\ listing = [p \in {1, 2} |-> IdleListing]
    /\ proxied = IdleRequest
    /\ last = NoObs

NextCache ==
    \/ Initialize
    \/ \E p \in DOMAIN listing : ModelsStart(p)
    \/ \E p \in DOMAIN listing : ModelsCall(p)
    \/ \E p \in DOMAIN listing : ModelsFetchFailed(p)
    \/ \E p \in DOMAIN listing : ModelsFetched(p)
    \/ \E p \in DOMAIN listing : ModelsRespond(p)
    \/ Tick

SpecCache == InitCache /\ [][NextCache]_vars

(***************************************************************************)
(* The reverse proxy of a Vender: Director, ModifyResponse, ErrorHandler   *)
(***************************************************************************)
\* hosts with and without a path after the authority
HostPrefixed == <<"https://", "a.test", "/v1">>
HostSiliconFlow == <<"https://", "api.", "siliconflow", ".cn">>
HostSiliconFlowPrefixed == <<"https://", "api.", "siliconflow", ".cn", "/v1">>
HostSiliconFlowSlash == <<"https://", "api.", "siliconflow", ".cn", "/">>
ProxyHosts ==
    {HostOK, HostPrefixed, HostSiliconFlow, HostSiliconFlowPrefixed,
     HostSiliconFlowSlash}

\* the segments a URL path is written with
PathTokens == {"/", "/v1", "/chat/completions", "/responses", "/resp_1"}

\* the paths of the requests the handlers hand to a proxy
RequestPaths ==
    {<<"/v1", "/chat/completions">>, <<"/v1", "/responses">>,
     <<"/v1", "/responses", "/resp_1">>}

\* url.Parse(v.conf.Host).Path: what follows the authority
URLPath(host) == SelectSeq(host, LAMBDA t : t \in PathTokens)

\* the path the Director of httputil.NewSingleHostReverseProxy(url) sets:
\* url's path and the request's path joined by a single slash
JoinURLPath(a, b) ==
    LET aslash == a # <<>> /\ a[Len(a)] = "/"
        bslash == b # <<>>
    IN IF aslash /\ bslash THEN SubSeq(a, 1, Len(a) - 1) \o b
       ELSE IF ~aslash /\ ~bslash THEN a \o <<"/">> \o b
       ELSE a \o b

\* modifyProxyRequest, the adjustment of the path: path is req.URL.Path as
\* the original Director left it
AdjustPath(host, path) ==
    IF /\ GetVendorType(host) = "siliconflow"
       /\ ~Contains(path, "/chat/completions")
       /\ URLPath(host) # <<>>
    THEN URLPath(host) \o <<"/chat/completions">>
    ELSE path

\* proxy.Director of Vender v's proxy: the original Director, then
\* modifyProxyRequest; the request is then on its way to the upstream
Director(v) ==
    /\ mpc = "initialized"
    /\ HasProxy(v)
    /\ proxied.pc = "idle"
    /\ \E authHeader \in AuthHeaders, path \in RequestPaths :
         LET host == ConfOf(v).Host
             sentPath == AdjustPath(host, JoinURLPath(URLPath(host), path))
             obs == [NoObs EXCEPT !.op = "Director", !.vender = v,
                                  !.auth = authHeader,
                                  !.host = Tail(host),
                                  !.path = path,
                                  !.sentPath = sentPath]
         IN /\ IF NeedsVendorKey(authHeader)
               THEN \E key \in GetKey(ConfOf(v), validKeys[v]) :
                      last' = [obs EXCEPT !.key = key,
                                          !.upstream = <<"Bearer ", key>>]
               ELSE last' = [obs EXCEPT !.upstream = authHeader]
            /\ proxied' = [pc |-> "sent", vender |-> v, path |-> sentPath,
                           err |-> ""]
    /\ UNCHANGED <<listingVars, conf, env, mpc, initErr, managerVars,
                   refreshVars>>

\* the statuses an upstream answers with
UpstreamCodes == {200, 401, 500}

\* the ways the round trip to the upstream fails
TransportErrors == {"connection refused", "context deadline exceeded"}

\* proxy.ModifyResponse: the upstream answered; the response is passed on
\* as it is
ModifyResponse ==
    /\ proxied.pc = "sent"
    /\ \E code \in UpstreamCodes :
         last' = [NoObs EXCEPT !.op = "ModifyResponse",
                               !.vender = proxied.vender,
                               !.sentPath = proxied.path,
                               !.code = code, !.body = <<"upstream">>]
    /\ proxied' = IdleRequest
    /\ UNCHANGED <<listingVars, conf, env, mpc, initErr, managerVars,
                   refreshVars>>

\* an error handler that answers 500
ErrorResponse_InternalError(err) ==
    [code |-> 500, message |-> <<"Proxy error: ", err>>,
     type |-> "proxy_error"]

\* proxy.ErrorHandler: what it writes to the client for error err
ErrorResponse(err) ==
    [code |-> 502, message |-> <<"Proxy error: ", err>>,
     type |-> "proxy_error"]

\* proxy.ErrorHandler: the round trip failed with err; the handler writes
\* its answer and returns
ErrorHandler ==
    /\ proxied.pc = "sent"
    /\ \E err \in TransportErrors :
         LET res == ErrorResponse(err)
         IN last' = [NoObs EXCEPT !.op = "ErrorHandler",
                                  !.vender = proxied.vender,
                                  !.sentPath = proxied.path,
                                  !.err = err,
                                  !.code = res.code,
                                  !.kind = res.type,
                                  !.body = res.message]
    /\ proxied' = IdleRequest
    /\ UNCHANGED <<listingVars, conf, env, mpc, initErr, managerVars,
                   refreshVars>>

\* one configured vendor behind each kind of host, with a key of its own
ProxyVendor(host) ==
    [Name |-> "A", Host |-> host, HideModels |-> FALSE, Key |-> "k1",
     Keys |-> <<>>]

InitProxy ==
    /\ conf \in {[Vendors |-> <<ProxyVendor(h)>>, Models |-> <<>>,
                  DefaultVendor |-> "A"] : h \in ProxyHosts}
    /\ env = "k0"
    /\ mpc = "new"
    /\ initErr = FALSE
    /\ Vendors = <<>>
    /\ Proxies = <<>>
    /\ ModelsMap = {}
    /\ DefaultProxy = NIL
    /\ DefaultVendor = NIL
    /\ validKeys = <<>>
    /\ committed = <<>>
    /\ periodic = <<>>
    /\ mgrPc = "off"
    /\ mgrQueue = <<>>
    /\ mgrPass = IdlePass
    /\ passes = 0
    /\ now = 0
    /\ modelsCache = <<>>
    /\ fetched = <<>>
    /\ requests = 0
    /\ listing = <<>>
    /\ proxied = IdleRequest
    /\ last = NoObs

NextProxy ==
    \/ Initialize
    \/ \E v \in Venders : Director(v)
    \/ ModifyResponse
    \/ ErrorHandler

SpecProxy == InitProxy /\ [][NextProxy]_vars

(***************************************************************************)
(* Key validation: checkKey and the two validators                         *)
(***************************************************************************)
\* a host of the OpenAI dialect written with a trailing slash
HostSlash == <<"https://", "a.test", "/">>

\* the values of data.totalBalance, character by character
BalanceStrings ==
    {<<"1", "2">>, <<"0">>, <<"-", "3">>, <<>>, <<"a">>, <<"N", "a", "N">>}

\* the bodies of an answer of the user-info endpoint, as json.Unmarshal into
\* SiliconFlowUserInfo reads them
Bodies ==
    {NoBody} \cup
    [parses : {TRUE}, Status : BOOLEAN, DataStatus : {"normal", "frozen"},
     TotalBalance : BalanceStrings]

\* what client.Do can give for a probe
ProbeResponses ==
    {NoResponse} \cup [transport : {"ok"}, code : {200, 401}, body : Bodies]

DigitValue(ch) ==
    CASE ch = "0" -> 0 [] ch = "1" -> 1 [] ch = "2" -> 2 [] ch = "3" -> 3
      [] OTHER -> 0 - 1

RECURSIVE Decimal(_)
Decimal(digits) ==
    IF digits = <<>> THEN 0
    ELSE 10 * Decimal(SubSeq(digits, 1, Len(digits) - 1))
         + DigitValue(digits[Len(digits)])

\* strconv.ParseFloat(s, 64) on signed decimal integers and on "NaN"
ParseFloat(s) ==
    IF s = <<"N", "a", "N">> THEN [err |-> FALSE, nan |-> TRUE, val |-> 0]
    ELSE LET neg == s # <<>> /\ s[1] = "-"
             digits == IF neg THEN Tail(s) ELSE s
         IN IF \/ digits = <<>>
               \/ \E i \in 1..Len(digits) : DigitValue(digits[i]) < 0
            THEN [err |-> TRUE, nan |-> FALSE, val |-> 0]
            ELSE [err |-> FALSE, nan |-> FALSE,
                  val |-> IF neg THEN 0 - Decimal(digits)
                          ELSE Decimal(digits)]

\* totalBalance <= 0 on float64: every comparison with NaN is false
LessEqZero(f) == ~f.nan /\ f.val <= 0

\* strings.TrimRight(host, "/")
RECURSIVE TrimRight(_)
TrimRight(host) ==
    IF host # <<>> /\ host[Len(host)] = "/"
    THEN TrimRight(SubSeq(host, 1, Len(host) - 1))
    ELSE host

\* checkOpenAIKey: the URL it probes
OpenAICheckURL(host) == TrimRight(host) \o <<"/v1/models">>

\* checkSiliconFlowKey: the URL it probes
SiliconFlowCheckURL ==
    <<"https://", "api.", "siliconflow", ".cn", "/v1/user/info">>

\* checkOpenAIKey that reports a key the upstream refused as an error
checkOpenAIKey_RefusalIsError(host, res) ==
    IF UrlParseFails(OpenAICheckURL(host)) THEN "error"
    ELSE IF res.transport # "ok" THEN "error"
    ELSE IF res.code = 200 THEN "valid"
    ELSE "error"

\* checkOpenAIKey: (true, nil) is "valid", (false, nil) is "invalid",
\* (false, err) is "error"
checkOpenAIKey(host, res) ==
    IF UrlParseFails(OpenAICheckURL(host)) THEN "error"
    ELSE IF res.transport # "ok" THEN "error"
    ELSE IF res.code = 200 THEN "valid"
    ELSE "invalid"

\* checkSiliconFlowKey
checkSiliconFlowKey(res) ==
    IF res.transport # "ok" THEN "error"
    ELSE IF res.code # 200 THEN "invalid"
    ELSE IF ~res.body.parses THEN "error"
    ELSE IF ~res.body.Status \/ res.body.DataStatus # "normal" THEN "invalid"
    ELSE LET totalBalance == ParseFloat(res.body.TotalBalance)
         IN IF totalBalance.err THEN "error"
            ELSE IF LessEqZero(totalBalance) THEN "invalid"
            ELSE "valid"

\* checkKey that has no validator for the OpenRouter dialect
Validator_NoneForOpenRouter(host) ==
    IF GetVendorType(host) = "siliconflow" THEN "checkSiliconFlowKey"
    ELSE IF GetVendorType(host) = "openrouter" THEN "none"
    ELSE "checkOpenAIKey"

\* checkKey: the validator the switch on GetVendorType() selects
Validator(host) ==
    IF GetVendorType(host) = "siliconflow" THEN "checkSiliconFlowKey"
    ELSE "checkOpenAIKey"

\* Vender.checkKey of Vender v, called by RefreshValidKeys for one of the
\* keys it checks, the upstream answering res
checkKey(v) ==
    /\ mpc = "initialized"
    /\ \E key \in Range(KeysToCheck(ConfOf(v))) \ {""}, res \in ProbeResponses :
         LET host == ConfOf(v).Host
             obs == [NoObs EXCEPT !.op = "checkKey", !.vender = v,
                                  !.key = key, !.results = <<res>>,
                                  !.upstream = <<"Bearer ", key>>,
                                  !.kind = Validator(host)]
         IN IF Validator(host) = "checkSiliconFlowKey"
            THEN last' = [obs EXCEPT !.host = SiliconFlowCheckURL,
                                     !.status = checkSiliconFlowKey(res)]
            ELSE last' = [obs EXCEPT !.host = OpenAICheckURL(host),
                                     !.status = checkOpenAIKey(host, res)]
    /\ UNCHANGED <<listingVars, proxied, conf, env, mpc, initErr,
                   managerVars, refreshVars>>

\* one configured vendor of each dialect, with a primary key and a pool
CheckVendor(host, pool) ==
    [Name |-> "A", Host |-> host, HideModels |-> FALSE, Key |-> "k1",
     Keys |-> pool]

InitCheck ==
    /\ conf \in {[Vendors |-> <<CheckVendor(h, pool)>>, Models |-> <<>>,
                  DefaultVendor |-> "A"] :
                    h \in {HostOK, HostSlash, HostSiliconFlow, HostOpenRouter},
                    pool \in SeqsUpTo({"k2"}, MaxPool)}
    /\ env = "k0"
    /\ mpc = "new"
    /\ initErr = FALSE
    /\ Vendors = <<>>
    /\ Proxies = <<>>
    /\ ModelsMap = {}
    /\ DefaultProxy = NIL
    /\ DefaultVendor = NIL
    /\ validKeys = <<>>
    /\ committed = <<>>
    /\ periodic = <<>>
    /\ mgrPc = "off"
    /\ mgrQueue = <<>>
    /\ mgrPass = IdlePass
    /\ passes = 0
    /\ now = 0
    /\ modelsCache = <<>>
    /\ fetched = <<>>
    /\ requests = 0
    /\ listing = <<>>
    /\ proxied = IdleRequest
    /\ last = NoObs

\* Vender.RefreshValidKeys of Vender v taken as one step, as Initialize
\* takes the calls it makes: every key of keysToCheck is probed in turn, the
\* i-th probe ending in outcomes[i], and the collected list is assigned
RefreshValidKeys(v) ==
    /\ mpc = "initialized"
    /\ LET keys == KeysToCheck(ConfOf(v))
       IN \E outcomes \in [1..Len(keys) -> Outcomes] :
            LET valid == CollectValid(keys, outcomes, <<>>)
            IN /\ validKeys' = [validKeys EXCEPT ![v] = valid]
               /\ committed' =
                    [committed EXCEPT
                       ![v] = CollectProbes(keys, outcomes, NoProbes)]
               /\ last' = [NoObs EXCEPT !.op = "RefreshValidKeys",
                                        !.vender = v, !.list = keys,
                                        !.results = outcomes,
                                        !.valid = valid]
    /\ UNCHANGED <<listingVars, proxied, conf, env, mpc, initErr,
                   managerVars, periodic, mgrPc, mgrQueue, mgrPass, passes>>

NextCheck ==
    \/ Initialize
    \/ \E v \in Venders : checkKey(v)
    \/ \E v \in Venders : CallGetKey(v)
    \/ \E v \in Venders : RefreshValidKeys(v)

SpecCheck == InitCheck /\ [][NextCheck]_vars

\* a RefreshValidKeys pass of Vender v has begun and has not yet assigned
\* v.validKeys
Refreshing(v) ==
    \/ periodic[v].pc = "probing"
    \/ mgrPass.pc = "probing" /\ mgrPass.vender = v

\* a GetKey call made while a RefreshValidKeys pass of the same Vender runs
GetKeyDuringRefresh(v) == Refreshing(v) /\ CallGetKey(v)

\* the key-check loops of the Venders and the requests that ask for a key
\* while one of them is at work
NextSwap ==
    \/ Initialize
    \/ \E v \in Venders : PeriodicTick(v)
    \/ \E v \in Venders : PeriodicProbe(v)
    \/ \E v \in Venders : PeriodicCommit(v)
    \/ \E v \in Venders : GetKeyDuringRefresh(v)

SpecSwap == InitCheck /\ [][NextSwap]_vars

\* vendor descriptors with one key of their own
RefreshVendor(name) ==
    [Name |-> name, Host |-> HostOK, HideModels |-> FALSE, Key |-> "k1",
     Keys |-> <<>>]

RefreshVendorLists ==
    {vs \in SeqsUpTo({RefreshVendor(nm) : nm \in VendorNames}, MaxVendors) :
        \A i, j \in 1..Len(vs) : vs[i].Name = vs[j].Name => i = j}

InitRefresh ==
    /\ conf \in {[Vendors |-> vs, Models |-> <<>>, DefaultVendor |-> "A"] :
                    vs \in RefreshVendorLists}
    /\ env = "k0"
    /\ mpc = "new"
    /\ initErr = FALSE
    /\ Vendors = <<>>
    /\ Proxies = <<>>
    /\ ModelsMap = {}
    /\ DefaultProxy = NIL
    /\ DefaultVendor = NIL
    /\ validKeys = <<>>
    /\ committed = <<>>
    /\ periodic = <<>>
    /\ mgrPc = "off"
    /\ mgrQueue = <<>>
    /\ mgrPass = IdlePass
    /\ passes = 0
    /\ now = 0
    /\ modelsCache = <<>>
    /\ fetched = <<>>
    /\ requests = 0
    /\ listing = <<>>
    /\ proxied = IdleRequest
    /\ last = NoObs

\* Initialize and the task it launches before it returns
NextRefresh ==
    \/ InitializeLocked
    \/ InitializeReturn
    \/ MgrSnapshot
    \/ MgrBegin
    \/ MgrProbe
    \/ MgrCommit
    \/ MgrDone

SpecRefresh == InitRefresh /\ [][NextRefresh]_vars

\* a tick of Vender v's periodicKeyCheck that comes before the manager-wide
\* task has taken its first snapshot
PeriodicTickFirst(v) == mgrPc = "start" /\ PeriodicTick(v)

\* the per-vendor loops start their passes first, the manager-wide refresh
\* starts its own while they run
NextOverlap ==
    \/ Initialize
    \/ \E v \in Venders : PeriodicTickFirst(v)
    \/ \E v \in Venders : PeriodicProbe(v)
    \/ \E v \in Venders : PeriodicCommit(v)
    \/ MgrSnapshot
    \/ MgrBegin
    \/ MgrProbe
    \/ MgrCommit
    \/ MgrDone

SpecOverlap == InitRefresh /\ [][NextOverlap]_vars

\* one registered vendor with a key of its own, one rule, one client of the
\* Models handler
InitFrame ==
    /\ conf = [Vendors |-> <<RefreshVendor("A")>>,
               Models |-> <<NamedRule("a-model", RegexA, "A")>>,
               DefaultVendor |-> "A"]
    /\ env = ""
    /\ mpc = "new"
    /\ initErr = FALSE
    /\ Vendors = <<>>
    /\ Proxies = <<>>
    /\ ModelsMap = {}
    /\ DefaultProxy = NIL
    /\ DefaultVendor = NIL
    /\ validKeys = <<>>
    /\ committed = <<>>
    /\ periodic = <<>>
    /\ mgrPc = "off"
    /\ mgrQueue = <<>>
    /\ mgrPass = IdlePass
    /\ passes = 0
    /\ now = 0
    /\ modelsCache = <<>>
    /\ fetched = <<>>
    /\ requests = 0
    /\ listing = [p \in {1} |-> IdleListing]
    /\ proxied = IdleRequest
    /\ last = NoObs

\* the refresh tasks have run all the passes the model follows
Settled ==
    /\ passes = MaxPasses
    /\ mgrPass.pc = "idle"
    /\ \A v \in Venders : periodic[v].pc = "idle"

\* every operation of the manager and of its Venders that runs after
\* Initialize: the refresh tasks, and the requests that arrive after their
\* passes
NextFrame ==
    \/ Initialize
    \/ Settled /\ CallGetVendor
    \/ Settled /\ CallGetProxyForVendor
    \/ Settled /\ CallGetVendorForModel
    \/ Settled /\ CallGetProxyForModel
    \/ \E v \in Venders : PeriodicTick(v)
    \/ \E v \in Venders : PeriodicProbe(v)
    \/ \E v \in Venders : PeriodicCommit(v)
    \/ MgrSnapshot
    \/ MgrBegin
    \/ MgrProbe
    \/ MgrCommit
    \/ MgrDone
    \/ \E v \in Venders : Settled /\ CallGetKey(v)
    \/ \E p \in DOMAIN listing : Settled /\ ModelsStart(p)
    \/ \E p \in DOMAIN listing : ModelsCall(p)
    \/ \E p \in DOMAIN listing : ModelsFetchFailed(p)
    \/ \E p \in DOMAIN listing : ModelsFetched(p)
    \/ \E p \in DOMAIN listing : ModelsRespond(p)

SpecFrame == InitFrame /\ [][NextFrame]_vars

\* the count of passes, which bounds the runs of the other specifications,
\* starts afresh when it reaches its bound: the tasks go on for as long as
\* the process lives
ForgetPasses ==
    /\ passes = MaxPasses
    /\ passes' = 0
    /\ UNCHANGED <<listingVars, proxied, conf, env, mpc, initErr,
                   managerVars, validKeys, committed, periodic, mgrPc,
                   mgrQueue, mgrPass, last>>

\* Initialize and the task it launches, for the life of the process
NextLive ==
    \/ InitializeLocked
    \/ InitializeReturn
    \/ MgrSnapshot
    \/ MgrBegin
    \/ MgrProbe
    \/ MgrCommit
    \/ MgrDone
    \/ ForgetPasses

\* Initialize returns; the goroutine of the task is scheduled, its ticker
\* fires every interval, and every probe ends, by an answer or by the
\* timeout of its client
SpecLive ==
    /\ InitRefresh
    /\ [][NextLive]_vars
    /\ WF_vars(InitializeLocked)
    /\ WF_vars(InitializeReturn)
    /\ WF_vars(MgrSnapshot)
    /\ WF_vars(MgrBegin)
    /\ WF_vars(MgrProbe)
    /\ WF_vars(MgrCommit)
    /\ WF_vars(MgrDone)
    /\ WF_vars(ForgetPasses)

(***************************************************************************)
(* Properties of routing                                                   *)
(***************************************************************************)
\* configured vendors with the given name / whose proxy could be built
Configured(name) == {i \in 1..Len(conf.Vendors) : conf.Vendors[i].Name = name}
WithProxy(name) ==
    {i \in Configured(name) : ~UrlParseFails(conf.Vendors[i].Host)}

\* compiled rules of the configuration that match a model name
Matching(model) ==
    {j \in 1..Len(conf.Models) :
        /\ Compiles(conf.Models[j].Regex)
        /\ MatchString(conf.Models[j].Regex, model)}
Targets(model) == {conf.Models[j].Vendor : j \in Matching(model)}

\* the proxy serving requests for the configured default-vendor name
ProxyOfDefaultName ==
    IF WithProxy(conf.DefaultVendor) # {}
    THEN MaxIndex(WithProxy(conf.DefaultVendor)) ELSE DefaultId

Forwarded == last.status = "forwarded"

\* C1: on every forwarding path, a request whose x-vendor header names a
\* registered vendor is served through that vendor's proxy, whatever the
\* model in its body.
C1_HeaderOverridesModel ==
    (Forwarded /\ last.name # "" /\ WithProxy(last.name) # {})
        => (last.proxy # NIL /\ last.proxy # DefaultId
            /\ ConfOf(last.proxy).Name = last.name)

\* C2: a chat-completions request without the override header is served by
\* the proxy of the vendor resolved for its model: A's proxy when only A's
\* rules match, the proxy of the configured default vendor when none does.
C2_ChatServedByModelVendor ==
    (last.op = "ChatComplections" /\ Forwarded /\ last.name = "")
        => /\ \A a \in VendorNames :
                (Targets(last.model) = {a} /\ WithProxy(a) # {})
                    => (last.proxy # DefaultId
                        /\ ConfOf(last.proxy).Name = a)
           /\ Matching(last.model) = {} => last.proxy = ProxyOfDefaultName

C2_Witness ==
    /\ last.op = "ChatComplections" /\ Forwarded /\ last.name = ""
    /\ Targets(last.model) = {"A"}
    /\ conf.DefaultVendor # "A"
    /\ last.proxy # DefaultId /\ ConfOf(last.proxy).Name = "A"

\* C3: GetVendorForModel returns the target of the matching rule when
\* exactly one compiled rule matches, the configured default vendor name
\* when none matches, and never a name that is neither.
C3_VendorForModel ==
    last.op = "GetVendorForModel"
        => /\ \A j \in Matching(last.model) :
                Matching(last.model) = {j}
                    => last.vendor = conf.Models[j].Vendor
           /\ Matching(last.model) = {} => last.vendor = conf.DefaultVendor
           /\ last.vendor \in Targets(last.model) \cup {conf.DefaultVendor}

C3_Witness ==
    /\ last.op = "GetVendorForModel"
    /\ Cardinality(Matching(last.model)) = 1
    /\ Len(conf.Models) > 1
    /\ last.vendor # conf.DefaultVendor
    /\ last.vendor \in Targets(last.model)

\* C4 (as stated): two calls of GetVendorForModel with the same model name
\* return the same vendor name.
C4_SameModelSameVendor ==
    [][(last.op = "GetVendorForModel" /\ last'.op = "GetVendorForModel"
        /\ last'.model = last.model) => last'.vendor = last.vendor]_vars

\* C4 (amended): when more than one compiled rule matches, GetVendorForModel
\* returns the target of one of the matching rules; which one is not fixed.
C4_SelectsAMatchingRule ==
    (last.op = "GetVendorForModel" /\ Cardinality(Matching(last.model)) > 1)
        => last.vendor \in Targets(last.model)

C4_Witness ==
    /\ last.op = "GetVendorForModel"
    /\ Cardinality(Matching(last.model)) > 1
    /\ Cardinality(Targets(last.model)) > 1
    /\ last.vendor \in Targets(last.model)
    /\ conf.DefaultVendor \notin Targets(last.model)

\* C5 (as stated): GetProxyForVendor("") and GetProxyForVendor of an
\* unregistered name return the proxy GetProxyForVendor(default name) returns.
C5_SameAsDefaultName ==
    (last.op = "GetProxyForVendor"
     /\ (last.name = "" \/ WithProxy(last.name) = {}))
        => last.proxy = ProxyOfDefaultName

\* C5 (amended): GetProxyForVendor("") returns the proxy of the configured
\* default-vendor name, an unregistered name returns the default proxy, and
\* when the default-vendor name is not registered "", the default name and
\* every unregistered name all return the default proxy.
C5_EmptyAndUnregistered ==
    last.op = "GetProxyForVendor"
        => /\ last.name = "" => last.proxy = ProxyOfDefaultName
           /\ (last.name # "" /\ WithProxy(last.name) = {})
                => last.proxy = DefaultId
           /\ (WithProxy(conf.DefaultVendor) = {}
               /\ (last.name = "" \/ WithProxy(last.name) = {}))
                => last.proxy = DefaultId

C5_Witness ==
    /\ last.op = "GetProxyForVendor"
    /\ last.name = ""
    /\ WithProxy(conf.DefaultVendor) # {}
    /\ last.proxy # DefaultId
    /\ ConfOf(last.proxy).Name = conf.DefaultVendor

\* C6: GetVendor always returns a Vender: the one registered under the name,
\* for "" what the configured default-vendor name gives, and the synthesized
\* default Vender for an unregistered name.
C6_GetVendor ==
    last.op = "GetVendor"
        => /\ last.vender # NIL
           /\ (last.name # "" /\ Configured(last.name) # {})
                => (last.vender # DefaultId
                    /\ ConfOf(last.vender).Name = last.name)
           /\ (last.name # "" /\ Configured(last.name) = {})
                => last.vender = DefaultId
           /\ last.name = ""
                => last.vender =
                     (IF Configured(conf.DefaultVendor) # {}
                      THEN MaxIndex(Configured(conf.DefaultVendor))
                      ELSE DefaultId)

C6_Witness ==
    /\ last.op = "GetVendor"
    /\ last.name = ""
    /\ Configured(conf.DefaultVendor) # {}
    /\ WithProxy(conf.DefaultVendor) = {}
    /\ last.vender # DefaultId

\* C7: once Initialize has returned, the default Vender and the default
\* proxy exist and every lookup, by vendor name or by model name, returns a
\* Vender or a proxy.
C7_NeverNil ==
    mpc = "initialized"
        => /\ DefaultVendor # NIL
           /\ DefaultProxy # NIL
           /\ \A name \in RequestNames :
                GetVendor(name) # NIL /\ GetProxyForVendor(name) # NIL
           /\ \A model \in ModelNames :
                \A p \in GetProxyForModel(model) : p.proxy # NIL
           /\ last.op \in {"GetVendor"} => last.vender # NIL
           /\ last.op \in {"GetProxyForVendor", "GetProxyForModel"}
                => last.proxy # NIL

C7_Witness ==
    /\ mpc = "initialized"
    /\ last.op = "GetProxyForModel"
    /\ Matching(last.model) # {}
    /\ Configured(last.routed) = {}
    /\ last.routed # conf.DefaultVendor
    /\ last.proxy = DefaultId

\* C18 (as stated): a configured vendor whose host does not parse is skipped:
\* Initialize returns success, every other configured vendor is registered
\* with its proxy, and the failing vendor is in neither the vendor map nor
\* the proxy map.
C18_FailingVendorSkipped ==
    mpc = "initialized"
        => /\ ~initErr
           /\ \A i \in 1..Len(conf.Vendors) :
                LET name == conf.Vendors[i].Name
                IN IF UrlParseFails(conf.Vendors[i].Host)
                   THEN name \notin DOMAIN Vendors /\ name \notin DOMAIN Proxies
                   ELSE /\ name \in DOMAIN Vendors /\ Vendors[name] = i
                        /\ name \in DOMAIN Proxies /\ Proxies[name] = i

(***************************************************************************)
(* Properties of key selection                                             *)
(***************************************************************************)
\* C8: a Vender whose configured key pool is empty always gets its primary
\* key from GetKey, whatever its valid-key set and whatever refreshes have
\* run or are running.
C8_EmptyPoolPrimary ==
    (last.op = "GetKey" /\ Len(ConfOf(last.vender).Keys) = 0)
        => last.key = ConfOf(last.vender).Key

C8_Witness ==
    /\ last.op = "GetKey"
    /\ Len(ConfOf(last.vender).Keys) = 0
    /\ ConfOf(last.vender).Key # ""
    /\ last.valid = <<>>
    /\ last.key = ConfOf(last.vender).Key
    /\ validKeys[last.vender] = <<>>
    /\ \/ periodic[last.vender].pc = "probing"
       \/ (mgrPass.pc = "probing" /\ mgrPass.vender = last.vender)

\* C9: when the valid-key set is not empty at the moment of the call, GetKey
\* returns a member of it; the primary key only if it is a member.
C9_ReturnsValidKey ==
    (last.op = "GetKey" /\ last.valid # <<>>)
        => last.key \in Range(last.valid)

C9_Witness ==
    /\ last.op = "GetKey"
    /\ Len(ConfOf(last.vender).Keys) > 0
    /\ ConfOf(last.vender).Key # ""
    /\ last.valid # <<>>
    /\ ConfOf(last.vender).Key \notin Range(last.valid)
    /\ last.key \in Range(last.valid)

\* C10: with a pool configured and an empty valid-key set, GetKey returns
\* the primary key.
C10_FallbackToPrimary ==
    (last.op = "GetKey" /\ Len(ConfOf(last.vender).Keys) > 0
     /\ last.valid = <<>>)
        => last.key = ConfOf(last.vender).Key

C10_Witness ==
    /\ last.op = "GetKey"
    /\ Len(ConfOf(last.vender).Keys) > 0
    /\ "k2" \in Range(ConfOf(last.vender).Keys)
    /\ ConfOf(last.vender).Key = "k1"
    /\ last.valid = <<>>
    /\ last.key = "k1"
    /\ passes > 0

\* the non-empty keys a Vender is configured with: primary key and pool
NonEmptyKeys(c) == {k \in {c.Key} \cup Range(c.Keys) : k # ""}

\* C11 (as stated): GetKey never returns a key that failed validation in the
\* most recently completed refresh of its Vender.
C11_FailedKeyNotReturned ==
    last.op = "GetKey" => last.key \notin last.failed

\* C11 (amended): a key that failed validation in the most recently completed refresh
\* is returned by GetKey only as the primary-key fallback, that is when it is
\* the primary key and the pool is empty or the valid-key set is empty; with
\* a pool configured and a non-empty valid-key set it is never returned.
C11_FailedOnlyAsFallback ==
    (last.op = "GetKey" /\ last.key \in last.failed)
        => /\ last.key = ConfOf(last.vender).Key
           /\ \/ Len(ConfOf(last.vender).Keys) = 0
              \/ last.valid = <<>>

C11_Witness ==
    /\ last.op = "GetKey"
    /\ Len(ConfOf(last.vender).Keys) > 0
    /\ "k1" \in last.failed
    /\ last.valid # <<>>
    /\ last.key = "k2"
    /\ passes > 0

\* C12: every RefreshValidKeys pass probes the primary key and every
\* non-empty pool key and commits exactly the keys whose probe succeeded, so
\* a key left out earlier is back as soon as a pass validates it; and
\* validKeys changes only in the assignment that ends such a pass.
C12_NoPermanentExclusion ==
    [][/\ \A v \in DOMAIN validKeys' :
            /\ committed'[v].ok \cup committed'[v].failed
                    = NonEmptyKeys(ConfOf(v))
            /\ Range(validKeys'[v]) = committed'[v].ok
       /\ \A v \in DOMAIN validKeys :
            validKeys'[v] # validKeys[v]
                => \E pass \in {periodic[v], mgrPass} :
                      /\ pass.pc = "probing"
                      /\ pass.vender = v
                      /\ pass.keys = <<>>
                      /\ validKeys'[v] = pass.valid]_vars

C12_Witness ==
    /\ last.op = "GetKey"
    /\ "k2" \in last.failed
    /\ "k2" \notin Range(last.valid)
    /\ "k2" \in Range(validKeys[last.vender])
    /\ "k1" \in committed[last.vender].failed

\* C20: the request rewrite sets Authorization to "Bearer " followed by a
\* key GetKey returned exactly when the inbound header is absent or
\* contains "null"; otherwise the upstream receives the client's header
\* unchanged, without any vendor key.
C20_AuthorizationRewrite ==
    last.op = "modifyProxyRequest"
        => IF last.auth = <<>> \/ \E i \in 1..Len(last.auth) :
                                      last.auth[i] = "null"
           THEN /\ last.upstream = <<"Bearer ", last.key>>
                /\ last.key \in {ConfOf(last.vender).Key}
                                    \cup Range(last.valid)
           ELSE last.upstream = last.auth

C20_Witness ==
    /\ last.op = "modifyProxyRequest"
    /\ last.auth = <<"Bearer ", "sk-", "null", "-x">>
    /\ ConfOf(last.vender).Key = "k1"
    /\ last.upstream = <<"Bearer ", "k2">>

(***************************************************************************)
(* Properties of the model-list cache and of model listing                 *)
(***************************************************************************)
\* C13 (as stated): a Models call made before the expiry of any earlier
\* successful call of the same Vender returns that call's list from the
\* cache and sends nothing upstream; a call made when every earlier success
\* has expired sends a fresh request.
C13_SameListUntilExpiry ==
    last.op = "Vender.Models"
        => /\ \A i \in 1..Len(last.prior) :
                last.at < last.prior[i].at + Hour
                    => /\ last.hit
                       /\ last.sent = 0
                       /\ last.list = last.prior[i].list
           /\ (/\ last.prior # <<>>
               /\ \A i \in 1..Len(last.prior) :
                    last.at >= last.prior[i].at + Hour)
                  => last.sent = 1

\* C13 (amended): a Models call made less than an hour after the most recent
\* successful fetch of its Vender stored its list returns that stored list
\* and sends nothing upstream (so no request is sent before the expiry of any
\* earlier success); every other call, the one made exactly at the expiry
\* included, sends one fresh upstream request.
C13_CachedUntilExpiry ==
    last.op = "Vender.Models"
        => LET n == Len(last.prior)
           IN /\ IF n > 0 /\ last.at < last.prior[n].at + Hour
                 THEN /\ last.hit
                      /\ last.sent = 0
                      /\ last.list = last.prior[n].list
                 ELSE ~last.hit /\ last.sent = 1
              /\ \A i \in 1..n :
                   last.at < last.prior[i].at + Hour
                       => last.hit /\ last.sent = 0

C13_Witness ==
    /\ last.op = "Vender.Models"
    /\ Len(last.prior) = 2
    /\ last.prior[1].list # last.prior[2].list
    /\ last.at < last.prior[1].at + Hour
    /\ last.at > last.prior[2].at
    /\ last.hit
    /\ last.list = last.prior[2].list

\* the names of the vendors configured with hideModels true
HiddenNames ==
    {conf.Vendors[i].Name :
        i \in {k \in 1..Len(conf.Vendors) : conf.Vendors[k].HideModels}}

\* the vendors of one handler run whose Models call succeeded
Succeeded(results) == {k \in 1..Len(results) : results[k].ok}

\* C14 (as stated): a listing for a hidden vendor is empty, and no entry of any
\* listing response, the static fallback included, is listed for a hidden
\* vendor.
C14_HiddenContributesNothing ==
    last.op = "Models"
        => /\ last.name \in HiddenNames => last.list = <<>>
           /\ \A i \in 1..Len(last.list) :
                last.list[i].from \notin HiddenNames

\* C15: the merged list of an aggregated listing holds each model ID once,
\* every ID a successfully fetched vendor returned is in it, and the entry of
\* an ID is the one of the first vendor, in processing order, that returned
\* it.
C15_MergedOnceFirstWins ==
    (last.op = "Models" /\ last.name = "" /\ last.kind = "combined")
        => /\ \A i, j \in 1..Len(last.list) :
                last.list[i].ID = last.list[j].ID => i = j
           /\ \A k \in Succeeded(last.results) :
                IDs(last.results[k].list) \subseteq IDs(last.list)
           /\ \A i \in 1..Len(last.list) :
                \E k \in Succeeded(last.results) :
                    /\ last.list[i].ID \in IDs(last.results[k].list)
                    /\ last.list[i].from = last.results[k].name
                    /\ \A h \in Succeeded(last.results) :
                         last.list[i].ID \in IDs(last.results[h].list)
                             => k <= h

C15_Witness ==
    /\ last.op = "Models"
    /\ last.name = ""
    /\ last.kind = "combined"
    /\ Len(last.results) = 2
    /\ \A k \in 1..2 :
         /\ last.results[k].ok
         /\ "shared-model" \in IDs(last.results[k].list)
    /\ last.results[1].name = "B"
    /\ Len(last.list) = 2
    /\ last.list[1].ID = "shared-model"
    /\ last.list[1].from = "B"

\* C16: an aggregated listing processes every vendor name whatever the
\* other vendors' fetches did, includes the models of every vendor whose
\* fetch succeeded, and answers with the static fallback list exactly when no
\* vendor's Models call succeeded; a success with an empty list counts.
C16_FallbackOnlyWithoutSuccess ==
    (last.op = "Models" /\ last.name = "")
        => /\ {last.results[k].name : k \in 1..Len(last.results)}
                = DOMAIN Vendors
           /\ \A k \in 1..Len(last.results) :
                last.results[k].ok => ~last.results[k].hidden
           /\ (last.kind = "static") <=> (Succeeded(last.results) = {})
           /\ last.kind = "static" => last.list = fallbackToStaticModels
           /\ last.kind # "static"
                => \A k \in Succeeded(last.results) :
                      IDs(last.results[k].list) \subseteq IDs(last.list)

C16_Witness ==
    /\ last.op = "Models"
    /\ last.name = ""
    /\ Len(last.results) = 2
    /\ ~last.results[1].ok /\ ~last.results[1].hidden
    /\ last.results[2].ok /\ last.results[2].list = <<>>
    /\ last.kind = "combined"
    /\ last.list = <<>>

\* C17: a listing with a vendor filter answers with the static fallback
\* list exactly when the Models call of that vendor returned an error, with
\* the empty list when the vendor is hidden, and with exactly the list the
\* vendor's Models call returned when it succeeded.
C17_FilteredListing ==
    (last.op = "Models" /\ last.name # "")
        => /\ Len(last.results) = 1
           /\ LET r == last.results[1]
              IN /\ r.vender = GetVendor(last.name)
                 /\ r.hidden = ConfOf(r.vender).HideModels
                 /\ (last.kind = "static") <=> (~r.hidden /\ ~r.ok)
                 /\ last.kind = "static" => last.list = fallbackToStaticModels
                 /\ r.hidden => last.list = <<>> /\ last.kind = "hidden"
                 /\ r.ok => /\ last.kind = "vendor"
                            /\ Len(last.list) = Len(r.list)
                            /\ \A i \in 1..Len(r.list) :
                                 /\ last.list[i].ID = r.list[i].ID
                                 /\ last.list[i].Pricing = r.list[i].Pricing

C17_Witness ==
    /\ last.op = "Models"
    /\ last.name = "A"
    /\ last.results[1].ok
    /\ last.results[1].list = <<>>
    /\ last.kind = "vendor"
    /\ last.list = <<>>
    /\ fallbackToStaticModels # <<>>

(***************************************************************************)
(* Properties of the reverse proxy                                         *)
(***************************************************************************)
\* the path prefix of the host of the Vender the last request went through
PathPrefix == URLPath(ConfOf(last.vender).Host)

\* C21: for every vendor whose configured host carries a path prefix, the
\* request rewrite sets the forwarded path to that prefix followed by
\* /chat/completions.
C21_PrefixThenChatCompletions ==
    (last.op = "Director" /\ PathPrefix # <<>>)
        => last.sentPath = PathPrefix \o <<"/chat/completions">>

\* C22: when the round trip to the upstream fails, the error handler answers
\* the client with status 502 and a JSON error of type proxy_error, and the
\* serving of the request returns.
C22_BadGatewayProxyError ==
    last.op = "ErrorHandler"
        => /\ last.err \in TransportErrors
           /\ last.code = 502
           /\ last.kind = "proxy_error"
           /\ last.body = <<"Proxy error: ", last.err>>
           /\ proxied.pc = "idle"

\* C22 witness: a request sent on a rewritten path failed with a timeout and
\* was answered by the error handler
C22_Witness ==
    /\ last.op = "ErrorHandler"
    /\ last.err = "context deadline exceeded"
    /\ last.code = 502
    /\ last.sentPath = <<"/v1", "/chat/completions">>
    /\ proxied.pc = "idle"

(***************************************************************************)
(* Properties of key validation                                            *)
(***************************************************************************)
\* the last call was made on a Vender of the OpenRouter dialect
OnOpenRouter ==
    /\ last.vender # NIL
    /\ GetVendorType(ConfOf(last.vender).Host) = "openrouter"

\* the outcome of the generic validator for the answer of the last probe
GenericOutcome ==
    IF last.results[1].transport # "ok" THEN "error"
    ELSE IF last.results[1].code = 200 THEN "valid"
    ELSE "invalid"

C24_ValidIffFunded ==
    (last.op = "checkKey" /\ last.kind = "checkSiliconFlowKey")
        => LET res == last.results[1]
               balance == ParseFloat(res.body.TotalBalance)
           IN /\ last.status = "valid"
                   <=> /\ res.transport = "ok"
                       /\ res.code = 200
                       /\ res.body.parses
                       /\ res.body.Status
                       /\ res.body.DataStatus = "normal"
                       /\ ~balance.err
                       /\ ~balance.nan
                       /\ balance.val > 0
              /\ (res.transport = "ok" /\ ~res.body.parses)
                   => last.status = "error"
              /\ (res.transport = "ok" /\ res.body.parses /\ balance.err)
                   => last.status = "error"

\* C25: the generic validator probes <host>/v1/models with the key as bearer
\* credential; HTTP 200 gives valid, any other status gives invalid without
\* an error, and a failure of the transport gives an error.
C25_GenericValidator ==
    (last.op = "checkKey" /\ last.kind = "checkOpenAIKey")
        => /\ last.host
                = TrimRight(ConfOf(last.vender).Host) \o <<"/v1/models">>
           /\ last.upstream = <<"Bearer ", last.key>>
           /\ (last.results[1].transport = "ok" /\ last.results[1].code = 200)
                => last.status = "valid"
           /\ (last.results[1].transport = "ok" /\ last.results[1].code # 200)
                => last.status = "invalid"
           /\ last.results[1].transport # "ok" => last.status = "error"

\* C25 witness: the upstream answers 401 to the probe of a pool key sent to a
\* host configured with a trailing slash
C25_Witness ==
    /\ last.op = "checkKey"
    /\ last.kind = "checkOpenAIKey"
    /\ last.key = "k2"
    /\ last.results[1].transport = "ok"
    /\ last.results[1].code = 401
    /\ last.status = "invalid"
    /\ last.host = <<"https://", "a.test", "/v1/models">>
    /\ ConfOf(last.vender).Host = HostSlash

(***************************************************************************)
(* Properties of the registry and of the valid-key sets                    *)
(***************************************************************************)
\* C26: in every state after Initialize the proxy map and the vendor map
\* hold the same names.
C26_SameNames ==
    mpc = "initialized" => DOMAIN Proxies = DOMAIN Vendors

\* C27: in every reachable state each Vender's valid-key set holds only keys
\* of its configured primary key and pool, and never the empty key; it may be
\* empty.
C27_ValidKeysConfigured ==
    \A v \in DOMAIN validKeys :
        Range(validKeys[v]) \subseteq NonEmptyKeys(ConfOf(v))

\* C27 witness: after a later refresh a Vender with an empty key in its pool
\* has both of its other keys valid while the default Vender has none
C27_Witness ==
    /\ mpc = "initialized"
    /\ passes > 0
    /\ \E v \in DOMAIN validKeys :
         /\ "" \in Range(ConfOf(v).Keys)
         /\ validKeys[v] = <<"k1", "k2">>
    /\ validKeys[DefaultId] = <<>>
    /\ ConfOf(DefaultId).Key # ""

\* C28: a GetKey call that runs while RefreshValidKeys is at work on the same
\* Vender never sees a partly built set: it reads the complete list the last
\* finished pass assigned, the call leaves the list alone, and the key it
\* returns is chosen from that list (or is the primary key when the pool or
\* the list is empty).
C28_NoPartialSet ==
    [][(last' # last /\ last'.op = "GetKey")
         => LET v == last'.vender
                c == ConfOf(v)
            IN /\ Refreshing(v)
               /\ last'.valid = validKeys[v]
               /\ Range(validKeys[v]) = committed[v].ok
               /\ validKeys' = validKeys
               /\ IF Len(c.Keys) = 0 \/ Len(validKeys[v]) = 0
                  THEN last'.key = c.Key
                  ELSE last'.key \in Range(validKeys[v])]_vars

\* C28 witness: GetKey saw the list <<k1, k2>> while a pass on the same Vender
\* holds only k1 in the list it is building and has a key left to probe
C28_Witness ==
    /\ last.op = "GetKey"
    /\ last.valid = <<"k1", "k2">>
    /\ last.key = "k2"
    /\ periodic[last.vender].pc = "probing"
    /\ periodic[last.vender].valid = <<"k1">>
    /\ periodic[last.vender].keys # <<>>
    /\ validKeys[last.vender] = <<"k1", "k2">>

\* the positions of the keys a pass found valid
ValidatedAt(keys, outcomes) ==
    {i \in 1..Len(keys) : keys[i] # "" /\ outcomes[i] = "valid"}

\* C29: a probe that ends in an error is not fatal to the refresh: the probe
\* adds nothing to the valid-key set, every other key is still probed, and the
\* pass ends by assigning exactly the keys that validated.
C29_ErrorProbeNotFatal ==
    (last.op = "RefreshValidKeys"
       /\ \E i \in 1..Len(last.results) : last.results[i] = "error")
        => LET v == last.vender
               keys == last.list
               at == ValidatedAt(keys, last.results)
           IN /\ Len(last.results) = Len(keys)
              /\ committed[v].ok \cup committed[v].failed
                   = NonEmptyKeys(ConfOf(v))
              /\ Range(last.valid) = {keys[i] : i \in at}
              /\ Len(last.valid) = Cardinality(at)
              /\ validKeys[v] = last.valid

\* C29 witness: the probe of the primary key ends in an error, the pool key is
\* probed after it and is the one key assigned
C29_Witness ==
    /\ last.op = "RefreshValidKeys"
    /\ last.list = <<"k1", "k2">>
    /\ last.results = <<"error", "valid">>
    /\ validKeys[last.vender] = <<"k2">>
    /\ committed[last.vender].failed = {"k1"}

(***************************************************************************)
(* Properties of the model-list cache                                      *)
(***************************************************************************)
\* the lists the successful fetches in log stored
StoredLists(log) == {log[i].list : i \in 1..Len(log)}

\* C30: the model-list cache only holds results of fetches that succeeded:
\* the entry of a Vender is the list one of its own successful fetches stored,
\* expiring an hour after that fetch, and a list Models() returns from the
\* cache was stored by an earlier successful fetch of the same Vender.
C30_CacheHoldsFetchedLists ==
    /\ \A v \in DOMAIN modelsCache :
         modelsCache[v] # <<>>
           => \E i \in 1..Len(fetched[v]) :
                /\ modelsCache[v][1].Models = fetched[v][i].list
                /\ modelsCache[v][1].ExpiresAt = fetched[v][i].at + Hour
    /\ (last.op = "Vender.Models" /\ last.hit)
         => /\ last.prior # <<>>
            /\ last.list \in StoredLists(last.prior)

\* C30 witness: Models() answers from the cache with a non-empty list that a
\* fetch of the same Vender stored before, while another Vender has fetched
\* nothing and has nothing cached
C30_Witness ==
    /\ last.op = "Vender.Models"
    /\ last.hit
    /\ last.list # <<>>
    /\ last.list \in StoredLists(last.prior)
    /\ \E v \in DOMAIN modelsCache :
         v # last.vender /\ modelsCache[v] = <<>> /\ fetched[v] = <<>>

\* the result the client p has just been handed
Returned(p) == listing'[p].results[Len(listing'[p].results)]

\* C31: a Models() call whose fetch fails leaves the cache as it was, sends no
\* second upstream request and returns an error; a fetch that succeeds
\* replaces the entry of its Vender with the new list, expiring one hour
\* later.  The call sends its one request when it misses the cache.
C31_FetchEffectOnCache ==
    [][\A p \in DOMAIN listing :
         /\ (listing[p].pc = "next" /\ listing'[p].pc = "fetch")
              => /\ requests' = requests + 1
                 /\ modelsCache' = modelsCache
         /\ (listing[p].pc = "fetch" /\ listing'[p].pc # "fetch")
              => LET v == GetVendor(Head(listing[p].names))
                 IN /\ requests' = requests
                    /\ Returned(p).vender = v
                    /\ IF Returned(p).ok
                       THEN modelsCache' =
                              [modelsCache EXCEPT ![v] =
                                 <<[Models |-> Returned(p).list,
                                    ExpiresAt |-> now + Hour]>>]
                       ELSE /\ modelsCache' = modelsCache
                            /\ last'.err \in FetchErrors
                            /\ Returned(p).list = <<>>]_vars

\* C31 witness: after two upstream requests the fetch of a call has failed on
\* the status and the entry stored by the other fetch is still in the cache
C31_Witness ==
    /\ last.op = "Vender.Models.fetch"
    /\ last.err = "status"
    /\ requests = 2
    /\ modelsCache[last.vender] # <<>>
    /\ modelsCache[last.vender][1].Models # <<>>
    /\ Len(fetched[last.vender]) = 1

\* C38: an expired entry is never returned: a list Models() returns from the
\* cache is the stored list of the latest successful fetch and the call is
\* made before that entry expires; a call whose fetch failed is handed no
\* list, whether or not an entry is stored.
C38_ExpiredNeverReturned ==
    /\ (last.op = "Vender.Models" /\ last.hit)
         => LET n == Len(last.prior)
            IN /\ n > 0
               /\ last.at < last.prior[n].at + Hour
               /\ last.list = last.prior[n].list
    /\ \A p \in DOMAIN listing :
         \A i \in 1..Len(listing[p].results) :
            ~listing[p].results[i].ok => listing[p].results[i].list = <<>>
    /\ (last.op = "Vender.Models.fetch" /\ last.err # "")
         => last.list = <<>>

\* C38 witness: the one client's call found the stored entry expired, its
\* fetch failed, and it was handed an error while the stale list stays stored
C38_Witness ==
    /\ last.op = "Vender.Models.fetch"
    /\ last.err # ""
    /\ modelsCache[last.vender] # <<>>
    /\ modelsCache[last.vender][1].Models # <<>>
    /\ modelsCache[last.vender][1].ExpiresAt <= now
    /\ \E i \in 1..Len(listing[1].results) :
         /\ listing[1].results[i].vender = last.vender
         /\ ~listing[1].results[i].ok
         /\ listing[1].results[i].list = <<>>

(***************************************************************************)
(* The manager-wide refresh                                                *)
(***************************************************************************)
\* the Venders the manager holds: the registered ones and the default one
Registry ==
    {Vendors[nm] : nm \in DOMAIN Vendors} \cup ({DefaultVendor} \ {NIL})

NoRepeat(q) == \A i, j \in 1..Len(q) : q[i] = q[j] => i = j

C37_FirstSnapshotAfterUnlock ==
    /\ [][(mgrPc = "start" /\ mgrPc' = "refreshing")
            => /\ mpc = "initialized"
               /\ DefaultVendor # NIL
               /\ DOMAIN Vendors =
                    {conf.Vendors[i].Name : i \in 1..Len(conf.Vendors)}
               /\ Range(mgrQueue') = Registry
               /\ Cardinality(Registry) = Cardinality(DOMAIN Vendors) + 1]_vars
    /\ [](mpc = "locked" => ENABLED InitializeReturn)
    /\ [](mpc = "locked" => mgrQueue = <<>> /\ mgrPass.pc = "idle")

\* the first snapshot of a registry of two Venders and the default Vender
C37_Witness ==
    /\ mpc = "initialized"
    /\ mgrPc = "refreshing"
    /\ passes = 0
    /\ Len(mgrQueue) = 3
    /\ mgrPass.pc = "idle"

(***************************************************************************)
(* The two resolutions of one chat-completions request                     *)
(***************************************************************************)
\* C39: the vendor name the ChatComplections handler resolves and logs for
\* the model is the vendor name GetProxyForModel resolves for the same
\* request, whose proxy serves it
C39_LoggedVendorServes ==
    (last.op = "ChatComplections" /\ Forwarded) => last.vendor = last.routed

(***************************************************************************)
(* The Vender and the proxy of one name                                    *)
(***************************************************************************)
\* C35: for every vendor name, the proxy GetProxyForVendor returns is the
\* proxy built from the Vender GetVendor returns for that name
C35_ProxyOfSameVender ==
    mpc = "initialized"
        => \A name \in RequestNames :
             GetProxyForVendor(name) = GetVendor(name)

(***************************************************************************)
(* Overlapping passes over one Vender                                      *)
(***************************************************************************)
\* the manager-wide refresh has taken its snapshot and its pass over
\* Vender v has assigned v.validKeys
ManagerPassDone(v) ==
    /\ mgrPc \in {"refreshing", "waiting"}
    /\ v \notin Range(mgrQueue)
    /\ ~(mgrPass.pc = "probing" /\ mgrPass.vender = v)

\* C36: where the pass of the per-vendor loop started before the pass of
\* the manager-wide refresh over the same Vender, the per-vendor pass never
\* assigns the valid-key set after the manager's pass has assigned it
C36_EarlierPassNeverOverwrites ==
    [][\A v \in DOMAIN periodic :
         (periodic[v].pc = "probing" /\ periodic'[v].pc = "idle")
            => ~ManagerPassDone(v)]_vars

(***************************************************************************)
(* The registry after Initialize                                           *)
(***************************************************************************)
\* C34: once Initialize has returned, no step of a lookup, of RefreshAllKeys,
\* of the periodic tasks, of Models or of GetKey changes the vendor map, the
\* proxy map, the compiled rules, the default Vender or the default proxy
C34_RegistryFrozen ==
    [][mpc = "initialized"
         => /\ Vendors' = Vendors
            /\ Proxies' = Proxies
            /\ ModelsMap' = ModelsMap
            /\ DefaultVendor' = DefaultVendor
            /\ DefaultProxy' = DefaultProxy]_vars

\* the tasks have refreshed the keys, a model list has been fetched and
\* cached and a key handed out, and the registry is the one Initialize built
C34_Witness ==
    /\ mpc = "initialized"
    /\ passes = MaxPasses
    /\ mgrPc = "waiting"
    /\ modelsCache[1] # <<>>
    /\ last.op = "GetKey"
    /\ DOMAIN Vendors = {"A"}
    /\ DOMAIN Proxies = {"A"}

(***************************************************************************)
(* The manager-wide task for the life of the process                       *)
(***************************************************************************)
\* RefreshValidKeys is running on Vender v for RefreshAllKeys
RefreshingForManager(v) == mgrPass.pc = "probing" /\ mgrPass.vender = v

\* C33: once Initialize has succeeded the task is running and nothing stops
\* it; it runs RefreshAllKeys at once and again after every wait, so that
\* every registered Vender and the default Vender is refreshed again and
\* again, without end
C33_RefreshedForever ==
    /\ []((mpc \in {"locked", "initialized"} /\ ~initErr) => mgrPc # "off")
    /\ [][mgrPc # "off" => mgrPc' # "off"]_vars
    /\ (mgrPc = "start") ~> (mgrPc = "refreshing")
    /\ (mgrPc = "waiting") ~> (mgrPc = "refreshing")
    /\ \A v \in 0..MaxVendors :
         []<>(mpc = "initialized" => (v \in Registry => RefreshingForManager(v)))

\* the task has run RefreshAllKeys over one registered Vender and the
\* default Vender and waits for the next tick of its ticker
C33_Witness ==
    /\ mgrPc = "waiting"
    /\ ~initErr
    /\ Cardinality(Registry) = 2
    /\ mgrPass.pc = "idle"
    /\ passes = 0

====
